---- MODULE Spec2Model ----
(***************************************************************************)
(* Office climate automation: the occupancy StateMachine                   *)
(* (src/src/state_machine.py) and the Orchestrator's ERV / HVAC            *)
(* coordination (src/src/orchestrator.py).                                 *)
(*                                                                         *)
(* Time is a discrete clock `now` (the value of time.time() /              *)
(* datetime.now()).  All durations of the configuration are expressed in   *)
(* clock ticks; the comparisons are those of the source.                   *)
(*                                                                         *)
(* asyncio tasks are modelled explicitly: a task created by                *)
(* asyncio.create_task is "created" until the loop runs it for the first   *)
(* time, "sleeping" while it awaits asyncio.sleep, and "cancelled" from    *)
(* Task.cancel() until the loop delivers CancelledError to it (at which    *)
(* point its except/finally blocks run).                                   *)
(***************************************************************************)
EXTENDS Integers, Sequences, FiniteSets, TLC

(* ---------------- bounds of the model ---------------- *)

\* number of clock ticks explored after construction
MaxTicks == 5
\* clock ticks explored by the climate specification
MaxTicksClimate == 2
\* asyncio timer tasks that may exist at once (created, sleeping or cancelled)
MaxTasks == 3

(* ---------------- StateConfig, in clock ticks ---------------- *)

\* StateConfig.motion_timeout_seconds (default 60 s)
motion_timeout_seconds == 2
\* StateConfig.departure_verification_seconds (default 10 s)
departure_verification_seconds == 2
\* StateConfig.door_open_threshold_minutes (default 5 min)
door_open_threshold_minutes == 2
\* StateConfig.door_open_away_timeout_minutes (default 5 min)
door_open_away_timeout_minutes == 3

\* value of the clock at construction: time.time() is far from the epoch, so
\* a zero timestamp is older than every timeout
StartTime == motion_timeout_seconds + door_open_threshold_minutes + 1

VARIABLES
    now,                          \* time.time()
    \* --- StateMachine ---
    state,                        \* OccupancyState: "present" | "away"
    mac_last_active,              \* SensorState.mac_last_active
    external_monitor,             \* SensorState.external_monitor
    motion_detected,              \* SensorState.motion_detected
    motion_last_seen,             \* SensorState.motion_last_seen
    door_open,                    \* SensorState.door_open
    door_last_changed,            \* SensorState.door_last_changed
    window_open,                  \* SensorState.window_open
    last_door_state,              \* _last_door_state: "none" | "open" | "closed"
    verifying_departure,          \* _verifying_departure
    departure_verification_task,  \* _departure_verification_task: task id, 0 = None
    door_open_away_task,          \* _door_open_away_task: task id, 0 = None
    tasks,                        \* the event loop's timer tasks
    callbacks,                    \* _callbacks: the registered observers, in order
    \* --- Orchestrator ---
    erv_running,                  \* _erv_running
    erv_speed,                    \* _erv_speed: "off" | "quiet" | "medium" | "turbo"
    co2_history,                  \* _co2_history: deque of <<time, ppm>>
    plateau_detected,             \* _plateau_detected
    away_start_time,              \* _away_start_time, NoneVal = None
    tvoc_away_history,            \* _tvoc_away_history: deque of <<time, tvoc>>
    tvoc_away_ventilation_active, \* _tvoc_away_ventilation_active
    tvoc_plateau_detected,        \* _tvoc_plateau_detected
    hvac_mode,                    \* _hvac_mode
    hvac_suspended,               \* _hvac_suspended
    hvac_last_mode,               \* _hvac_last_mode, "none" = None
    manual_erv_override,          \* _manual_erv_override
    manual_erv_speed,             \* _manual_erv_speed, "none" = None
    manual_erv_override_at,       \* _manual_erv_override_at, NoneVal = None
    manual_hvac_override,         \* _manual_hvac_override
    manual_hvac_mode,             \* _manual_hvac_mode, "none" = None
    manual_hvac_override_at,      \* _manual_hvac_override_at, NoneVal = None
    latest_reading,               \* qingping.latest_reading: [co2, tvoc, temp_c]
    hvac_eval_pending,            \* a created _evaluate_hvac_state task waits to run
    hvac_await,                   \* the await a started _evaluate_hvac_state is suspended at
    kumo_mode,                    \* the heat pump itself: power/operationMode
    co2_history_size,             \* config.thresholds.co2_history_size (deque maxlen)
    tvoc_away_history_size,       \* config.thresholds.tvoc_away_history_size
    \* --- what the last handler sent to its collaborators ---
    erv_cmd,                      \* erv.turn_on(speed) / erv.turn_off(), "none"
    erv_audit,                    \* db.log_climate_action("erv", ..., reason), "none"
    hvac_cmd,                     \* kumo.set_heat / set_cool / turn_off, "none"
    hvac_audit,                   \* db.log_climate_action("hvac", ..., reason), "none"
    notified,                     \* calls _on_state_change(old, new) received
    erv_device,                   \* the ERV itself: the speed it runs at
    \* --- stale-air flush (attributes named by tests/test_away_stale_flush.py) ---
    room_closed_since,               \* _room_closed_since, NoneVal = None
    away_stale_flush_active_until,   \* _away_stale_flush_active_until, NoneVal = None
    away_stale_flush_next_due_at,    \* _away_stale_flush_next_due_at, NoneVal = None
    \* --- hvac_hysteresis ---
    heat_band                     \* a call of get_heat_band_action: arguments, result

smVars == <<state, mac_last_active, external_monitor, motion_detected,
            motion_last_seen, door_open, door_last_changed, window_open,
            last_door_state, verifying_departure, departure_verification_task,
            door_open_away_task, tasks, callbacks>>

orchVars == <<erv_running, erv_speed, co2_history, plateau_detected,
              away_start_time, tvoc_away_history, tvoc_away_ventilation_active,
              tvoc_plateau_detected, hvac_mode, hvac_suspended, hvac_last_mode,
              manual_erv_override, manual_erv_speed, manual_erv_override_at,
              manual_hvac_override, manual_hvac_mode, manual_hvac_override_at,
              latest_reading, hvac_eval_pending, hvac_await, kumo_mode,
              co2_history_size, tvoc_away_history_size,
              erv_cmd, erv_audit, hvac_cmd, hvac_audit, notified,
              erv_device, room_closed_since, away_stale_flush_active_until,
              away_stale_flush_next_due_at>>

vars == <<now, smVars, orchVars, heat_band>>

(* ---------------- the StateMachine object as a record ---------------- *)

SM == [state |-> state, mac_last_active |-> mac_last_active,
       external_monitor |-> external_monitor,
       motion_detected |-> motion_detected,
       motion_last_seen |-> motion_last_seen,
       door_open |-> door_open, door_last_changed |-> door_last_changed,
       window_open |-> window_open, last_door_state |-> last_door_state,
       verifying_departure |-> verifying_departure,
       departure_verification_task |-> departure_verification_task,
       door_open_away_task |-> door_open_away_task, tasks |-> tasks,
       callbacks |-> callbacks]

SetSM(s) ==
    /\ state' = s.state
    /\ mac_last_active' = s.mac_last_active
    /\ external_monitor' = s.external_monitor
    /\ motion_detected' = s.motion_detected
    /\ motion_last_seen' = s.motion_last_seen
    /\ door_open' = s.door_open
    /\ door_last_changed' = s.door_last_changed
    /\ window_open' = s.window_open
    /\ last_door_state' = s.last_door_state
    /\ verifying_departure' = s.verifying_departure
    /\ departure_verification_task' = s.departure_verification_task
    /\ door_open_away_task' = s.door_open_away_task
    /\ tasks' = s.tasks
    /\ callbacks' = s.callbacks

DoorStr(b) == IF b THEN "open" ELSE "closed"

(* ---------------- asyncio tasks ---------------- *)

TaskOf(ts, id) == CHOOSE tk \in ts : tk.id = id

IsLive(tk) == tk.st \in {"created", "sleeping"}

LiveTasks(ts, kind) == {tk \in ts : tk.kind = kind /\ IsLive(tk)}

FreeIds(ts) == {i \in 1..MaxTasks : \A tk \in ts : tk.id # i}

NewId(ts) == CHOOSE i \in FreeIds(ts) : \A j \in FreeIds(ts) : i <= j

\* asyncio.create_task(coro): the task exists but has not run yet
CreateTask(ts, kind) ==
    ts \cup {[id |-> NewId(ts), kind |-> kind, st |-> "created", due |-> 0]}

\* Task.cancel(): a task that never ran is dropped without running its body;
\* a sleeping task gets CancelledError when the loop next runs it
CancelTask(ts, id) ==
    LET tk == TaskOf(ts, id) IN
    IF tk.st = "created" THEN ts \ {tk}
    ELSE (ts \ {tk}) \cup {[tk EXCEPT !.st = "cancelled"]}

(* ---------------- StateMachine properties ---------------- *)

in_door_open_mode(s, t) ==
    IF ~s.door_open THEN FALSE
    ELSE (t - s.door_last_changed) >= door_open_threshold_minutes

\* is_present without the door-held-open branch: presence is always judged
\* against the door's last change
is_present_closed_door_rules(s, t) ==
    LET mac_presence == s.external_monitor /\ s.mac_last_active > s.door_last_changed
        motion_age == t - s.motion_last_seen
        motion_recent == s.motion_detected \/ (motion_age < motion_timeout_seconds)
        motion_inside == /\ motion_recent
                         /\ ~s.door_open
                         /\ s.motion_last_seen > s.door_last_changed
    IN mac_presence \/ motion_inside

is_present(s, t) ==
    IF in_door_open_mode(s, t)
    THEN LET motion_age == t - s.motion_last_seen
             motion_recent == s.motion_detected \/ (motion_age < motion_timeout_seconds)
             mac_recent == s.external_monitor /\ s.mac_last_active > 0
         IN mac_recent \/ motion_recent
    ELSE LET mac_presence == s.external_monitor /\ s.mac_last_active > s.door_last_changed
             motion_age == t - s.motion_last_seen
             motion_recent == s.motion_detected \/ (motion_age < motion_timeout_seconds)
             motion_inside == /\ motion_recent
                              /\ ~s.door_open
                              /\ s.motion_last_seen > s.door_last_changed
         IN mac_presence \/ motion_inside

safety_interlock_active(s) == s.window_open \/ s.door_open

(* ---------------- timer management ---------------- *)

cancel_departure_verification(s) ==
    IF s.departure_verification_task # 0
    THEN [s EXCEPT !.tasks = CancelTask(@, s.departure_verification_task),
                   !.departure_verification_task = 0,
                   !.verifying_departure = FALSE]
    ELSE s

cancel_door_open_away_timer(s) ==
    IF s.door_open_away_task # 0
    THEN [s EXCEPT !.tasks = CancelTask(@, s.door_open_away_task),
                   !.door_open_away_task = 0]
    ELSE s

start_departure_verification(s) ==
    IF s.state # "present" THEN s
    ELSE LET c == cancel_departure_verification(s) IN
         [c EXCEPT !.verifying_departure = TRUE,
                   !.departure_verification_task = NewId(c.tasks),
                   !.tasks = CreateTask(@, "departure")]

start_door_open_away_timer(s) ==
    IF s.state # "present" THEN s
    ELSE LET c == cancel_door_open_away_timer(s) IN
         [c EXCEPT !.door_open_away_task = NewId(c.tasks),
                   !.tasks = CreateTask(@, "door_open_away")]

\* evaluate without the arrival of the normal mode: AWAY -> PRESENT only in
\* door-held-open mode
evaluate_door_open_mode_only(s, t) ==
    LET s1 == IF in_door_open_mode(s, t)
              THEN IF s.state = "away" /\ is_present(s, t)
                   THEN start_door_open_away_timer([s EXCEPT !.state = "present"])
                   ELSE IF s.state = "present" /\ is_present(s, t)
                        THEN start_door_open_away_timer(s)
                        ELSE s
              ELSE s
    IN [s1 EXCEPT !.last_door_state = DoorStr(s1.door_open)]

\* StateMachine.evaluate, up to (not including) the notification
evaluate(s, t) ==
    LET s1 == IF in_door_open_mode(s, t)
              THEN IF s.state = "away" /\ is_present(s, t)
                   THEN start_door_open_away_timer([s EXCEPT !.state = "present"])
                   ELSE IF s.state = "present" /\ is_present(s, t)
                        THEN start_door_open_away_timer(s)
                        ELSE s
              ELSE IF s.state = "away" /\ is_present(s, t)
                   THEN [s EXCEPT !.state = "present"]
                   ELSE s
    IN [s1 EXCEPT !.last_door_state = DoorStr(s1.door_open)]

(* ---------------- sensor update methods ---------------- *)

update_mac_occupancy(s, t, last_active_timestamp, monitor) ==
    LET s1 == [s EXCEPT !.external_monitor = monitor,
                        !.mac_last_active = last_active_timestamp]
        s2 == IF last_active_timestamp > s1.door_last_changed /\ s1.verifying_departure
              THEN cancel_departure_verification(s1)
              ELSE s1
    IN evaluate(s2, t)

update_motion(s, t, detected) ==
    LET s1 == [s EXCEPT !.motion_detected = detected]
        s2 == IF detected
              THEN LET m == [s1 EXCEPT !.motion_last_seen = t] IN
                   IF m.verifying_departure
                   THEN cancel_departure_verification(m)
                   ELSE m
              ELSE s1
    IN evaluate(s2, t)

\* the door event stored without stamping door_last_changed
update_door_keeps_timestamp(s, t, is_open) ==
    LET was_open == s.last_door_state
        s1 == [s EXCEPT !.door_open = is_open]
        s2 == IF was_open = "open" /\ ~is_open
              THEN start_departure_verification(cancel_door_open_away_timer(s1))
              ELSE s1
    IN evaluate(s2, t)

update_door(s, t, is_open) ==
    LET was_open == s.last_door_state
        s1 == [s EXCEPT !.door_open = is_open, !.door_last_changed = t]
        s2 == IF was_open = "open" /\ ~is_open
              THEN start_departure_verification(cancel_door_open_away_timer(s1))
              ELSE s1
    IN evaluate(s2, t)

\* the window event evaluated without storing the window's position
update_window_not_stored(s, t, is_open) ==
    evaluate(s, t)

update_window(s, t, is_open) ==
    evaluate([s EXCEPT !.window_open = is_open], t)

(* ---------------- timer coroutines ---------------- *)

\* _departure_verification_timer after asyncio.sleep returned
departure_verification_timer(s, tk) ==
    LET s1 == IF s.state = "present"
              THEN [s EXCEPT !.state = "away",
                             !.motion_last_seen = 0,
                             !.motion_detected = FALSE]
              ELSE s
    IN [s1 EXCEPT !.verifying_departure = FALSE,
                  !.departure_verification_task = 0,
                  !.tasks = @ \ {tk}]

\* the door-open-away timer committing AWAY whatever the door's position
door_open_away_timer_any_mode(s, t, tk) ==
    LET s1 == IF s.state = "present"
              THEN [s EXCEPT !.state = "away"]
              ELSE s
    IN [s1 EXCEPT !.door_open_away_task = 0, !.tasks = @ \ {tk}]

\* _door_open_away_timer after asyncio.sleep returned
door_open_away_timer(s, t, tk) ==
    LET s1 == IF s.state = "present" /\ in_door_open_mode(s, t)
              THEN [s EXCEPT !.state = "away"]
              ELSE s
    IN [s1 EXCEPT !.door_open_away_task = 0, !.tasks = @ \ {tk}]

\* CancelledError delivered to a sleeping timer: except (pass) and finally
timer_cancelled(s, tk) ==
    IF tk.kind = "departure"
    THEN [s EXCEPT !.verifying_departure = FALSE,
                   !.departure_verification_task = 0,
                   !.tasks = @ \ {tk}]
    ELSE [s EXCEPT !.door_open_away_task = 0, !.tasks = @ \ {tk}]

SleepTime(kind) ==
    IF kind = "departure" THEN departure_verification_seconds
    ELSE door_open_away_timeout_minutes

(* ======================= Orchestrator ======================= *)

\* Python None for numbers (timestamps, ppm, degrees)
NoneVal == -1

(* ---------------- ThresholdsConfig ---------------- *)

co2_critical_ppm == 2000
co2_critical_hysteresis_ppm == 200
co2_refresh_target_ppm == 500
co2_plateau_min_co2 == 600
hvac_min_temp_f == 68
hvac_critical_temp_f == 55
tvoc_away_threshold == 200
tvoc_away_target == 40
\* rate thresholds, in tenths of a unit per minute
co2_plateau_rate_threshold_x10 == 5
tvoc_plateau_rate_threshold_x10 == 3
tvoc_rate_turbo_threshold_x10 == 50
tvoc_rate_medium_threshold_x10 == 15
tvoc_rate_quiet_threshold_x10 == 3

(* ---------------- sizes and durations, scaled to the model ---------------- *)

\* ThresholdsConfig.co2_history_size / tvoc_away_history_size (default 40) of
\* the configurations the specifications construct the Orchestrator with
HistorySizeVentilation == 1
\* min_readings of _detect_co2_plateau / _detect_tvoc_plateau (20 in the source)
co2_min_readings == 2
tvoc_min_readings == 2
\* _manual_override_timeout (30 * 60 s), in ticks
manual_override_timeout == 1

(* ---------------- the Orchestrator object as a record ---------------- *)

O == [erv_running |-> erv_running, erv_speed |-> erv_speed,
      co2_history |-> co2_history, plateau_detected |-> plateau_detected,
      away_start_time |-> away_start_time,
      tvoc_away_history |-> tvoc_away_history,
      tvoc_away_ventilation_active |-> tvoc_away_ventilation_active,
      tvoc_plateau_detected |-> tvoc_plateau_detected,
      hvac_mode |-> hvac_mode, hvac_suspended |-> hvac_suspended,
      hvac_last_mode |-> hvac_last_mode,
      manual_erv_override |-> manual_erv_override,
      manual_erv_speed |-> manual_erv_speed,
      manual_erv_override_at |-> manual_erv_override_at,
      manual_hvac_override |-> manual_hvac_override,
      manual_hvac_mode |-> manual_hvac_mode,
      manual_hvac_override_at |-> manual_hvac_override_at,
      latest_reading |-> latest_reading,
      hvac_eval_pending |-> hvac_eval_pending, hvac_await |-> hvac_await,
      kumo_mode |-> kumo_mode,
      co2_history_size |-> co2_history_size,
      tvoc_away_history_size |-> tvoc_away_history_size,
      erv_cmd |-> erv_cmd, erv_audit |-> erv_audit,
      hvac_cmd |-> hvac_cmd, hvac_audit |-> hvac_audit,
      notified |-> notified,
      room_closed_since |-> room_closed_since,
      away_stale_flush_active_until |-> away_stale_flush_active_until,
      away_stale_flush_next_due_at |-> away_stale_flush_next_due_at]

SetO(o) ==
    /\ erv_running' = o.erv_running
    /\ erv_speed' = o.erv_speed
    /\ co2_history' = o.co2_history
    /\ plateau_detected' = o.plateau_detected
    /\ away_start_time' = o.away_start_time
    /\ tvoc_away_history' = o.tvoc_away_history
    /\ tvoc_away_ventilation_active' = o.tvoc_away_ventilation_active
    /\ tvoc_plateau_detected' = o.tvoc_plateau_detected
    /\ hvac_mode' = o.hvac_mode
    /\ hvac_suspended' = o.hvac_suspended
    /\ hvac_last_mode' = o.hvac_last_mode
    /\ manual_erv_override' = o.manual_erv_override
    /\ manual_erv_speed' = o.manual_erv_speed
    /\ manual_erv_override_at' = o.manual_erv_override_at
    /\ manual_hvac_override' = o.manual_hvac_override
    /\ manual_hvac_mode' = o.manual_hvac_mode
    /\ manual_hvac_override_at' = o.manual_hvac_override_at
    /\ latest_reading' = o.latest_reading
    /\ hvac_eval_pending' = o.hvac_eval_pending
    /\ hvac_await' = o.hvac_await
    /\ kumo_mode' = o.kumo_mode
    /\ co2_history_size' = o.co2_history_size
    /\ tvoc_away_history_size' = o.tvoc_away_history_size
    /\ erv_cmd' = o.erv_cmd
    /\ erv_audit' = o.erv_audit
    /\ hvac_cmd' = o.hvac_cmd
    /\ hvac_audit' = o.hvac_audit
    /\ notified' = o.notified
    /\ room_closed_since' = o.room_closed_since
    /\ away_stale_flush_active_until' = o.away_stale_flush_active_until
    /\ away_stale_flush_next_due_at' = o.away_stale_flush_next_due_at

\* no _evaluate_hvac_state coroutine is suspended at an await
NoAwait == [at |-> "none", cmd |-> "none"]

\* a handler starts with nothing sent yet
Fresh(o) == [o EXCEPT !.erv_cmd = "none", !.erv_audit = "none",
                      !.hvac_cmd = "none", !.hvac_audit = "none",
                      !.notified = <<>>]

Abs(x) == IF x < 0 THEN -x ELSE x

\* deque(maxlen=n).append(x)
DequeAppend(h, x, n) ==
    IF Len(h) >= n THEN Append(Tail(h), x) ELSE Append(h, x)

(* ---------------- manual override expiry ---------------- *)

check_manual_override_expiry(o, t) ==
    LET o1 == IF o.manual_erv_override /\ o.manual_erv_override_at # NoneVal
                 /\ (t - o.manual_erv_override_at) > manual_override_timeout
              THEN [o EXCEPT !.manual_erv_override = FALSE,
                             !.manual_erv_speed = "none",
                             !.manual_erv_override_at = NoneVal]
              ELSE o
    IN IF o1.manual_hvac_override /\ o1.manual_hvac_override_at # NoneVal
          /\ (t - o1.manual_hvac_override_at) > manual_override_timeout
       THEN [o1 EXCEPT !.manual_hvac_override = FALSE,
                       !.manual_hvac_mode = "none",
                       !.manual_hvac_override_at = NoneVal]
       ELSE o1

\* _clear_manual_overrides that forgets the HVAC override
clear_manual_overrides_erv_only(o) ==
    [o EXCEPT !.manual_erv_override = FALSE,
              !.manual_erv_speed = "none",
              !.manual_erv_override_at = NoneVal]

clear_manual_overrides(o) ==
    [o EXCEPT !.manual_erv_override = FALSE,
              !.manual_erv_speed = "none",
              !.manual_erv_override_at = NoneVal,
              !.manual_hvac_override = FALSE,
              !.manual_hvac_mode = "none",
              !.manual_hvac_override_at = NoneVal]

(* ---------------- rate of change and plateau ---------------- *)

\* _calculate_co2_rate_of_change / _calculate_tvoc_rate_of_change: the rate
\* delta / time_delta is kept as the fraction num / den (den > 0);
\* ok = FALSE is Python None
calculate_rate_of_change(h) ==
    IF Len(h) < 2 THEN [ok |-> FALSE, num |-> 0, den |-> 1]
    ELSE LET time_delta == h[Len(h)][1] - h[1][1]
             delta == h[Len(h)][2] - h[1][2]
         IN IF time_delta = 0 THEN [ok |-> FALSE, num |-> 0, den |-> 1]
            ELSE [ok |-> TRUE, num |-> delta, den |-> time_delta]

\* abs(rate) > threshold and abs(rate) < threshold, threshold in tenths
AbsRateAbove(r, thr_x10) == 10 * Abs(r.num) > thr_x10 * r.den
AbsRateBelow(r, thr_x10) == 10 * Abs(r.num) < thr_x10 * r.den

detect_co2_plateau(o) ==
    IF Len(o.co2_history) < co2_min_readings THEN FALSE
    ELSE IF o.co2_history[Len(o.co2_history)][2] > co2_plateau_min_co2 THEN FALSE
    ELSE LET rate == calculate_rate_of_change(o.co2_history) IN
         IF ~rate.ok THEN FALSE
         ELSE AbsRateBelow(rate, co2_plateau_rate_threshold_x10)

\* Returns the speed and the new _plateau_detected.  Past the plateau check
\* the method reads config.thresholds.co2_turbo_duration_minutes, which
\* ThresholdsConfig does not define: AttributeError is raised (speed "raise")
\* before _away_start_time or the rate of change is looked at.
get_adaptive_erv_speed_for_away(o, t) ==
    IF detect_co2_plateau(o)
    THEN [speed |-> "off", plateau |-> TRUE]
    ELSE [speed |-> "raise", plateau |-> o.plateau_detected]

detect_tvoc_plateau(o) ==
    IF Len(o.tvoc_away_history) < tvoc_min_readings THEN FALSE
    ELSE IF o.tvoc_away_history[Len(o.tvoc_away_history)][2] > tvoc_away_target + 20
         THEN FALSE
    ELSE LET rate == calculate_rate_of_change(o.tvoc_away_history) IN
         IF ~rate.ok THEN FALSE
         ELSE AbsRateBelow(rate, tvoc_plateau_rate_threshold_x10)

\* returns the speed ("none" = None) and the new _tvoc_plateau_detected
get_adaptive_erv_speed_for_tvoc_away(o) ==
    IF detect_tvoc_plateau(o)
    THEN [speed |-> "off", plateau |-> TRUE]
    ELSE LET rate == calculate_rate_of_change(o.tvoc_away_history) IN
         IF ~rate.ok THEN [speed |-> "none", plateau |-> o.tvoc_plateau_detected]
         ELSE IF AbsRateAbove(rate, tvoc_rate_turbo_threshold_x10)
              THEN [speed |-> "turbo", plateau |-> o.tvoc_plateau_detected]
         ELSE IF AbsRateAbove(rate, tvoc_rate_medium_threshold_x10)
              THEN [speed |-> "medium", plateau |-> o.tvoc_plateau_detected]
         ELSE IF AbsRateAbove(rate, tvoc_rate_quiet_threshold_x10)
              THEN [speed |-> "quiet", plateau |-> o.tvoc_plateau_detected]
         ELSE [speed |-> "quiet", plateau |-> o.tvoc_plateau_detected]

(* ---------------- _evaluate_erv_state ---------------- *)

\* the speed priorities with MEDIUM ranked above TURBO
SpeedPriorityMediumFirst(sp) ==
    CASE sp = "turbo" -> 2
      [] sp = "medium" -> 3
      [] sp = "quiet" -> 1
      [] sp = "off" -> 0
      [] OTHER -> -1

SpeedPriority(sp) ==
    CASE sp = "turbo" -> 3
      [] sp = "medium" -> 2
      [] sp = "quiet" -> 1
      [] sp = "off" -> 0
      [] OTHER -> -1

ErvOff(o, reason) ==
    [o EXCEPT !.erv_cmd = "off", !.erv_running = FALSE, !.erv_speed = "off",
              !.erv_audit = reason]

ErvOn(o, speed, reason) ==
    [o EXCEPT !.erv_cmd = speed, !.erv_running = TRUE, !.erv_speed = speed,
              !.erv_audit = reason]

\* the safety branch without the _erv_running guard: turn_off() is sent and
\* logged on every evaluation
erv_safety_interlock_unguarded(o) ==
    [ErvOff(o, "safety_interlock") EXCEPT !.tvoc_away_ventilation_active = FALSE]

\* the safety branch (window/door open)
erv_safety_interlock(o) ==
    IF o.erv_running
    THEN [ErvOff(o, "safety_interlock") EXCEPT !.tvoc_away_ventilation_active = FALSE]
    ELSE o

\* the manual override branch (no audit event is logged here)
erv_manual_override(o) ==
    LET target_speed == o.manual_erv_speed IN
    IF target_speed = "off"
    THEN IF o.erv_running THEN ErvOff(o, "none") ELSE o
    ELSE IF ~o.erv_running \/ o.erv_speed # target_speed
         THEN ErvOn(o, target_speed, "none")
         ELSE o

\* the PRESENT branch with a single threshold: OFF as soon as CO2 is below
\* co2_critical_ppm
erv_present_single_threshold(o) ==
    LET co2 == o.latest_reading.co2
        co2_critical_on == co2 # NoneVal /\ co2 >= co2_critical_ppm
    IN IF co2_critical_on
       THEN IF ~o.erv_running \/ o.erv_speed # "quiet"
            THEN ErvOn(o, "quiet", "present_co2_critical")
            ELSE o
       ELSE IF o.erv_running THEN ErvOff(o, "none")
       ELSE o

\* the PRESENT branch: CO2 hysteresis, tVOC ignored
erv_present(o) ==
    LET co2 == o.latest_reading.co2
        co2_critical_on == co2 # NoneVal /\ co2 >= co2_critical_ppm
        co2_critical_off == co2 # NoneVal
                            /\ co2 < (co2_critical_ppm - co2_critical_hysteresis_ppm)
    IN IF co2_critical_on
       THEN IF ~o.erv_running \/ o.erv_speed # "quiet"
            THEN ErvOn(o, "quiet", "present_co2_critical")
            ELSE o
       ELSE IF o.erv_running /\ o.erv_speed = "quiet"
            THEN IF co2_critical_off THEN ErvOff(o, "none") ELSE o
       ELSE IF o.erv_running THEN ErvOff(o, "none")
       ELSE o

\* the AWAY branch, CO2 part: the speed ("none" = None, "raise" = the
\* AttributeError) and the new _plateau_detected
away_co2_adaptive(o, t) ==
    IF o.latest_reading.co2 # NoneVal /\ o.latest_reading.co2 > co2_refresh_target_ppm
    THEN get_adaptive_erv_speed_for_away(o, t)
    ELSE [speed |-> "none", plateau |-> o.plateau_detected]

\* the AWAY branch, tVOC part, given ta = _get_adaptive_erv_speed_for_tvoc_away:
\* the speed and the new _tvoc_away_ventilation_active / _tvoc_plateau_detected
away_tvoc_with(o, ta) ==
    LET tvoc == o.latest_reading.tvoc
        tvoc_needs_clearing == tvoc # NoneVal /\ tvoc > tvoc_away_threshold
        tvoc_at_target == tvoc # NoneVal /\ tvoc <= tvoc_away_target
    IN IF tvoc_needs_clearing \/ o.tvoc_away_ventilation_active
       THEN IF tvoc_at_target /\ o.tvoc_away_ventilation_active
            THEN [speed |-> "none", active |-> FALSE, plateau |-> FALSE]
            ELSE [speed |-> ta.speed,
                  active |-> IF ~o.tvoc_away_ventilation_active /\ tvoc_needs_clearing
                             THEN TRUE
                             ELSE o.tvoc_away_ventilation_active,
                  plateau |-> ta.plateau]
       ELSE [speed |-> "none", active |-> o.tvoc_away_ventilation_active,
             plateau |-> o.tvoc_plateau_detected]

away_tvoc_adaptive(o) == away_tvoc_with(o, get_adaptive_erv_speed_for_tvoc_away(o))

\* the AWAY decision that leaves a running ERV on when nothing needs
\* ventilation
away_decide_keeps_running(o, co2_adaptive_speed, tvoc_adaptive_speed) ==
    LET co2 == o.latest_reading.co2
        co2_needs_refresh == co2 # NoneVal /\ co2 > co2_refresh_target_ppm
        co2_priority == SpeedPriority(co2_adaptive_speed)
        tvoc_priority == SpeedPriority(tvoc_adaptive_speed)
        target_speed == IF co2_priority >= tvoc_priority
                        THEN co2_adaptive_speed
                        ELSE tvoc_adaptive_speed
    IN IF co2_adaptive_speed = "off"
          /\ (tvoc_adaptive_speed = "off" \/ ~o.tvoc_away_ventilation_active)
       THEN IF o.erv_running
            THEN ErvOff(o, IF o.plateau_detected THEN "co2_plateau"
                           ELSE "targets_reached")
            ELSE o
       ELSE IF co2_priority >= 0 \/ tvoc_priority >= 0
       THEN IF target_speed # "none" /\ target_speed # "off"
            THEN IF ~o.erv_running \/ o.erv_speed # target_speed
                 THEN ErvOn(o, target_speed, "away_adaptive")
                 ELSE o
            ELSE o
       ELSE IF ~co2_needs_refresh /\ ~o.tvoc_away_ventilation_active
       THEN o
       ELSE IF ~o.erv_running \/ o.erv_speed # "turbo"
            THEN ErvOn(o, "turbo", "away_refresh")
            ELSE o

\* the AWAY branch, decision: the more aggressive of the two speeds
away_decide(o, co2_adaptive_speed, tvoc_adaptive_speed) ==
    LET co2 == o.latest_reading.co2
        co2_needs_refresh == co2 # NoneVal /\ co2 > co2_refresh_target_ppm
        co2_priority == SpeedPriority(co2_adaptive_speed)
        tvoc_priority == SpeedPriority(tvoc_adaptive_speed)
        target_speed == IF co2_priority >= tvoc_priority
                        THEN co2_adaptive_speed
                        ELSE tvoc_adaptive_speed
    IN IF co2_adaptive_speed = "off"
          /\ (tvoc_adaptive_speed = "off" \/ ~o.tvoc_away_ventilation_active)
       THEN IF o.erv_running
            THEN ErvOff(o, IF o.plateau_detected THEN "co2_plateau"
                           ELSE "targets_reached")
            ELSE o
       ELSE IF co2_priority >= 0 \/ tvoc_priority >= 0
       THEN IF target_speed # "none" /\ target_speed # "off"
            THEN IF ~o.erv_running \/ o.erv_speed # target_speed
                 THEN ErvOn(o, target_speed, "away_adaptive")
                 ELSE o
            ELSE o
       ELSE IF ~co2_needs_refresh /\ ~o.tvoc_away_ventilation_active
       THEN IF o.erv_running THEN ErvOff(o, "air_quality_ok") ELSE o
       ELSE IF ~o.erv_running \/ o.erv_speed # "turbo"
            THEN ErvOn(o, "turbo", "away_refresh")
            ELSE o

\* the flags of the tVOC part are stored, then the decision is taken
away_after_tvoc(o, co2_adaptive_speed, tv) ==
    away_decide([o EXCEPT !.tvoc_away_ventilation_active = tv.active,
                          !.tvoc_plateau_detected = tv.plateau],
                co2_adaptive_speed, tv.speed)

\* _plateau_detected of the CO2 part is stored, then the tVOC part runs
away_after_co2(o, co2_adaptive_speed) ==
    away_after_tvoc(o, co2_adaptive_speed, away_tvoc_adaptive(o))

\* the CO2 part raised: nothing was assigned
away_with(o, ca) ==
    IF ca.speed = "raise" THEN o
    ELSE away_after_co2([o EXCEPT !.plateau_detected = ca.plateau], ca.speed)

\* the AWAY branch: adaptive CO2 / tVOC ventilation
erv_away(o, t) == away_with(o, away_co2_adaptive(o, t))

\* the automatic logic with tVOC above the AWAY threshold starting MEDIUM
\* ventilation while PRESENT
erv_automatic_tvoc_when_present(o, s, t) ==
    IF s.state = "present"
    THEN IF o.latest_reading.tvoc # NoneVal /\ o.latest_reading.tvoc > tvoc_away_threshold
         THEN ErvOn(o, "medium", "present_tvoc")
         ELSE erv_present(o)
    ELSE erv_away(o, t)

\* the automatic logic of _evaluate_erv_state (after the override branch)
erv_automatic(o, s, t) ==
    IF s.state = "present" THEN erv_present(o) ELSE erv_away(o, t)

\* the automatic logic ends in the AttributeError of
\* _get_adaptive_erv_speed_for_away
erv_automatic_raises(o, s, t) ==
    s.state = "away" /\ away_co2_adaptive(o, t).speed = "raise"

\* _evaluate_erv_state; loop = asyncio.get_event_loop() found a loop, so the
\* trailing create_task(_evaluate_hvac_state()) succeeded
evaluate_erv_state(o, s, t, loop) ==
    LET o0 == check_manual_override_expiry(o, t) IN
    IF s.window_open \/ s.door_open THEN erv_safety_interlock(o0)
    ELSE IF o0.manual_erv_override THEN erv_manual_override(o0)
    ELSE IF erv_automatic_raises(o0, s, t) THEN o0
    ELSE LET o1 == erv_automatic(o0, s, t) IN
         [o1 EXCEPT !.hvac_eval_pending = @ \/ loop]

(* ---------------- _on_state_change ---------------- *)

\* new = AWAY: after _co2_history.clear() the handler executes
\* self._tvoc_history.clear(); the Orchestrator has no attribute _tvoc_history
\* (only _tvoc_away_history), so AttributeError is raised and is caught and
\* logged by StateMachine._notify_state_change.  Nothing after that line runs:
\* _away_start_time is not set, the ERV is not evaluated, no HVAC evaluation
\* is scheduled.
on_state_change(o, s, new_state, t) ==
    LET o1 == clear_manual_overrides(o) IN
    IF new_state = "away"
    THEN [o1 EXCEPT !.co2_history = <<>>]
    ELSE LET o2 == [o1 EXCEPT !.away_start_time = NoneVal,
                              !.tvoc_away_ventilation_active = FALSE,
                              !.tvoc_plateau_detected =
                                  IF o1.tvoc_away_ventilation_active THEN FALSE ELSE @,
                              !.plateau_detected = FALSE]
             o3 == evaluate_erv_state(o2, s, t, TRUE)
         IN [o3 EXCEPT !.hvac_eval_pending = TRUE]

\* callback(old_state, new_state) inside the try of _notify_state_change:
\* "orchestrator" is Orchestrator._on_state_change, "raises" an observer that
\* raises, "records" an observer that returns; an exception is caught and
\* logged
call_callback(o, cb, old_state, s, t) ==
    LET o1 == [o EXCEPT !.notified = Append(@, <<old_state, s.state>>)] IN
    IF cb = "orchestrator" THEN on_state_change(o1, s, s.state, t) ELSE o1

RECURSIVE notify_callbacks(_, _, _, _, _)
RECURSIVE notify_callbacks_stop_at_raise(_, _, _, _, _)

\* the loop over the observers left by the first exception
notify_callbacks_stop_at_raise(o, cbs, old_state, s, t) ==
    IF cbs = <<>> THEN o
    ELSE IF Head(cbs) = "raises" \/ (Head(cbs) = "orchestrator" /\ s.state = "away")
    THEN call_callback(o, Head(cbs), old_state, s, t)
    ELSE notify_callbacks_stop_at_raise(call_callback(o, Head(cbs), old_state, s, t),
                                        Tail(cbs), old_state, s, t)

\* for callback in self._callbacks: try: callback(old, new) except: log
notify_callbacks(o, cbs, old_state, s, t) ==
    IF cbs = <<>> THEN o
    ELSE notify_callbacks(call_callback(o, Head(cbs), old_state, s, t),
                          Tail(cbs), old_state, s, t)

\* the callbacks are called whether or not the state changed
notify_state_change_always(o, old_state, s, t) ==
    notify_callbacks(o, s.callbacks, old_state, s, t)

\* StateMachine.evaluate / the timers: _notify_state_change is called when
\* the state differs from old_state
notify_state_change(o, old_state, s, t) ==
    IF s.state # old_state
    THEN notify_callbacks(o, s.callbacks, old_state, s, t)
    ELSE o

(* ---------------- _evaluate_hvac_state ---------------- *)

\* _get_temp_f: temp_c * 9 / 5 + 32 (the modelled temperatures are multiples
\* of 5 degrees Celsius, for which the conversion is exact)
get_temp_f(o) ==
    IF o.latest_reading.temp_c # NoneVal
    THEN (o.latest_reading.temp_c * 9) \div 5 + 32
    ELSE NoneVal

HvacOnModes == {"heat", "cool", "auto"}

\* the restore sending set_heat whatever mode was remembered
hvac_restore_always_heat(o, cmd_ok, reason) ==
    LET o1 == [o EXCEPT !.hvac_cmd = "heat"]
    IN IF ~cmd_ok THEN o1
       ELSE [o1 EXCEPT !.kumo_mode = "heat",
                       !.hvac_mode = o.hvac_last_mode,
                       !.hvac_audit = reason]

\* try: set_heat / set_cool for _hvac_last_mode; record mode; log.
\* cmd_ok = FALSE: the Kumo call raised, the except branch only logs.
hvac_restore(o, cmd_ok, reason) ==
    LET sent == IF o.hvac_last_mode \in {"heat", "cool"}
                THEN o.hvac_last_mode ELSE "none"
        o1 == [o EXCEPT !.hvac_cmd = sent]
    IN IF sent # "none" /\ ~cmd_ok THEN o1
       ELSE [o1 EXCEPT !.kumo_mode = IF sent # "none" THEN sent ELSE @,
                       !.hvac_mode = o.hvac_last_mode,
                       !.hvac_audit = reason]

\* _evaluate_hvac_state suspending at hvac_min_temp_f already
evaluate_hvac_state_suspends_at_floor(o, s, within_hours, status_ok, cmd_ok) ==
    LET temp_f == get_temp_f(o) IN
    IF s.state = "present"
    THEN LET o1 == IF o.hvac_suspended /\ o.hvac_last_mode \in HvacOnModes
                   THEN hvac_restore(o, cmd_ok, "present_restore")
                   ELSE o
         IN [o1 EXCEPT !.hvac_suspended = FALSE]
    ELSE IF temp_f # NoneVal /\ temp_f < hvac_critical_temp_f
    THEN IF o.hvac_suspended \/ o.hvac_mode = "off"
         THEN IF cmd_ok
              THEN [o EXCEPT !.hvac_cmd = "heat", !.kumo_mode = "heat",
                             !.hvac_mode = "heat", !.hvac_suspended = FALSE,
                             !.hvac_audit = "critical_temp"]
              ELSE [o EXCEPT !.hvac_cmd = "heat"]
         ELSE o
    ELSE IF o.erv_running /\ temp_f # NoneVal /\ temp_f >= hvac_min_temp_f
    THEN IF ~o.hvac_suspended /\ status_ok /\ o.kumo_mode \in HvacOnModes
         THEN LET o1 == [o EXCEPT !.hvac_last_mode = o.kumo_mode,
                                  !.hvac_cmd = "off"]
              IN IF cmd_ok
                 THEN [o1 EXCEPT !.kumo_mode = "off", !.hvac_mode = "off",
                                 !.hvac_suspended = TRUE,
                                 !.hvac_audit = "erv_running"]
                 ELSE o1
         ELSE o
    ELSE IF ~o.erv_running /\ o.hvac_suspended
    THEN IF within_hours /\ o.hvac_last_mode \in HvacOnModes
         THEN LET o1 == hvac_restore(o, cmd_ok, "erv_stopped_occupancy_hours") IN
              IF o1.hvac_audit # "none"
              THEN [o1 EXCEPT !.hvac_suspended = FALSE]
              ELSE o1
         ELSE o
    ELSE o

\* within_hours = _is_within_occupancy_hours(); status_ok / cmd_ok = the Kumo
\* status query / command returned instead of raising
evaluate_hvac_state(o, s, within_hours, status_ok, cmd_ok) ==
    LET temp_f == get_temp_f(o) IN
    IF s.state = "present"
    THEN LET o1 == IF o.hvac_suspended /\ o.hvac_last_mode \in HvacOnModes
                   THEN hvac_restore(o, cmd_ok, "present_restore")
                   ELSE o
         IN [o1 EXCEPT !.hvac_suspended = FALSE]
    ELSE IF temp_f # NoneVal /\ temp_f < hvac_critical_temp_f
    THEN IF o.hvac_suspended \/ o.hvac_mode = "off"
         THEN IF cmd_ok
              THEN [o EXCEPT !.hvac_cmd = "heat", !.kumo_mode = "heat",
                             !.hvac_mode = "heat", !.hvac_suspended = FALSE,
                             !.hvac_audit = "critical_temp"]
              ELSE [o EXCEPT !.hvac_cmd = "heat"]
         ELSE o
    ELSE IF o.erv_running /\ temp_f # NoneVal /\ temp_f > hvac_min_temp_f
    THEN IF ~o.hvac_suspended /\ status_ok /\ o.kumo_mode \in HvacOnModes
         THEN LET o1 == [o EXCEPT !.hvac_last_mode = o.kumo_mode,
                                  !.hvac_cmd = "off"]
              IN IF cmd_ok
                 THEN [o1 EXCEPT !.kumo_mode = "off", !.hvac_mode = "off",
                                 !.hvac_suspended = TRUE,
                                 !.hvac_audit = "erv_running"]
                 ELSE o1
         ELSE o
    ELSE IF ~o.erv_running /\ o.hvac_suspended
    THEN IF within_hours /\ o.hvac_last_mode \in HvacOnModes
         THEN LET o1 == hvac_restore(o, cmd_ok, "erv_stopped_occupancy_hours") IN
              IF o1.hvac_audit # "none"
              THEN [o1 EXCEPT !.hvac_suspended = FALSE]
              ELSE o1
         ELSE o
    ELSE o

(* ---------------- manual requests ---------------- *)

\* _handle_erv_post after validation of the speed
handle_erv_post(o, t, speed) ==
    LET o1 == [o EXCEPT !.manual_erv_override = TRUE,
                        !.manual_erv_speed = speed,
                        !.manual_erv_override_at = t]
        o2 == IF speed = "off"
              THEN [o1 EXCEPT !.erv_cmd = "off", !.erv_running = FALSE,
                              !.erv_speed = "off"]
              ELSE [o1 EXCEPT !.erv_cmd = speed, !.erv_running = TRUE]
    IN [o2 EXCEPT !.erv_audit = "manual_override"]

\* _handle_hvac_post after validation of the mode; cmd_ok = FALSE: the Kumo
\* call raised and the handler answers 400
handle_hvac_post(o, t, mode, cmd_ok) ==
    LET o1 == [o EXCEPT !.manual_hvac_override = TRUE,
                        !.manual_hvac_mode = mode,
                        !.manual_hvac_override_at = t,
                        !.hvac_suspended = FALSE,
                        !.hvac_last_mode = "none",
                        !.hvac_cmd = mode]
    IN IF cmd_ok
       THEN [o1 EXCEPT !.kumo_mode = mode, !.hvac_mode = mode,
                       !.hvac_audit = "manual_override"]
       ELSE o1

(* ---------------- air-quality readings ---------------- *)

\* QingpingMQTTClient._on_message stores the reading, then
\* Orchestrator._on_qingping_reading runs
on_qingping_reading(o, s, t, reading, loop) ==
    LET o1 == [o EXCEPT !.latest_reading = reading]
        o2 == IF reading.tvoc # NoneVal
              THEN [o1 EXCEPT !.tvoc_away_history =
                        DequeAppend(@, <<t, reading.tvoc>>, o.tvoc_away_history_size)]
              ELSE o1
        o3 == IF reading.co2 # NoneVal
              THEN [o2 EXCEPT !.co2_history =
                        DequeAppend(@, <<t, reading.co2>>, o.co2_history_size)]
              ELSE o2
    IN evaluate_erv_state(o3, s, t, loop)

(* ======================= initial state ======================= *)

NoReading == [co2 |-> NoneVal, tvoc |-> NoneVal, temp_c |-> NoneVal]

\* start() registers the Orchestrator's _on_state_change, the only observer
RegisteredCallbacks == <<"orchestrator">>

\* StateMachine.__init__ followed by on_state_change(cb) for each observer of
\* one of the given lists
InitSMWith(observers) ==
    /\ callbacks \in observers
    /\ state = "away"
    /\ mac_last_active = 0
    /\ external_monitor = FALSE
    /\ motion_detected = FALSE
    /\ motion_last_seen = 0
    /\ door_open = FALSE
    /\ door_last_changed = 0
    /\ window_open = FALSE
    /\ last_door_state = "none"
    /\ verifying_departure = FALSE
    /\ departure_verification_task = 0
    /\ door_open_away_task = 0
    /\ tasks = {}

InitSM == InitSMWith({RegisteredCallbacks})

\* Orchestrator.__init__ followed by start(): _erv_running is read from the
\* ERV (status.power), _hvac_mode / _hvac_last_mode from the heat pump
InitOrch(ervPower, kumoModes, historySize) ==
    /\ co2_history_size = historySize
    /\ tvoc_away_history_size = historySize
    /\ erv_running \in ervPower
    /\ erv_speed = "off"
    /\ co2_history = <<>>
    /\ plateau_detected = FALSE
    /\ away_start_time = NoneVal
    /\ tvoc_away_history = <<>>
    /\ tvoc_away_ventilation_active = FALSE
    /\ tvoc_plateau_detected = FALSE
    /\ kumo_mode \in kumoModes
    /\ hvac_mode = kumo_mode
    /\ hvac_suspended = FALSE
    /\ hvac_last_mode = IF kumo_mode # "off" THEN kumo_mode ELSE "heat"
    /\ manual_erv_override = FALSE
    /\ manual_erv_speed = "none"
    /\ manual_erv_override_at = NoneVal
    /\ manual_hvac_override = FALSE
    /\ manual_hvac_mode = "none"
    /\ manual_hvac_override_at = NoneVal
    /\ latest_reading = NoReading
    /\ hvac_eval_pending = FALSE
    /\ hvac_await = NoAwait
    /\ erv_cmd = "none"
    /\ erv_audit = "none"
    /\ hvac_cmd = "none"
    /\ hvac_audit = "none"
    /\ notified = <<>>
    /\ erv_device \in IF erv_running THEN {"quiet", "medium", "turbo"} ELSE {"off"}
    /\ room_closed_since = StartTime
    /\ away_stale_flush_active_until = NoneVal
    /\ away_stale_flush_next_due_at = NoneVal

\* get_heat_band_action has not been called (the Orchestrator never calls it)
NoHeatBandCall == [args |-> <<>>, action |-> "none"]

(* ======================= actions ======================= *)

\* the loop has no task ready to run (no timer task to start, to deliver
\* CancelledError to or whose sleep is over, no HVAC evaluation waiting)
LoopIdle ==
    /\ \A tk \in tasks : tk.st = "sleeping" /\ tk.due > now
    /\ ~hvac_eval_pending

\* The loop runs its ready tasks before it dispatches the next event; every
\* handler may create one timer task.
CanHandle == LoopIdle /\ Cardinality(tasks) < MaxTasks

\* ERVClient.set_speed: the device takes the commanded speed when the call
\* succeeds (returns True) and keeps its speed when it reports failure
\* (returns False); cmd = "none": no command was sent
ErvDeviceAfter(dev, cmd, erv_ok) ==
    IF cmd = "none" \/ ~erv_ok THEN dev ELSE cmd

\* a sensor update method followed by the notification of the observers
SensorUpdate(s) ==
    /\ CanHandle
    /\ \E s1 \in {s} :
         /\ SetSM(s1)
         /\ \E o1 \in {notify_state_change(Fresh(O), state, s1, now)} :
              /\ SetO(o1)
              /\ erv_device' = ErvDeviceAfter(erv_device, o1.erv_cmd, TRUE)
    /\ UNCHANGED <<now, heat_band>>

\* _handle_yolink_event for the door, the window and the motion sensor
HandleYolinkDoor(is_open) == SensorUpdate(update_door(SM, now, is_open))

HandleYolinkWindow(is_open) == SensorUpdate(update_window(SM, now, is_open))

HandleYolinkMotion(detected) == SensorUpdate(update_motion(SM, now, detected))

\* _handle_occupancy_post
HandleOccupancyPost(ts, monitor) ==
    SensorUpdate(update_mac_occupancy(SM, now, ts, monitor))

\* timestamps a workstation report may carry: the previously reported one (no
\* new activity; 0 = never active at first), or activity right now
MacTimestamps == {mac_last_active, now}

\* a reading is handled; erv_ok = the ERV command of the evaluation, if one
\* is sent, succeeds
OnQingpingReadingErv(reading, loop, erv_ok) ==
    /\ CanHandle
    /\ \E o1 \in {on_qingping_reading(Fresh(O), SM, now, reading, loop)} :
         /\ SetO(o1)
         /\ erv_device' = ErvDeviceAfter(erv_device, o1.erv_cmd, erv_ok)
    /\ UNCHANGED <<now, smVars, heat_band>>

\* a reading is handled and the ERV obeys
OnQingpingReading(reading, loop) == OnQingpingReadingErv(reading, loop, TRUE)

HandleErvPost(speed) ==
    /\ CanHandle
    /\ \E o1 \in {handle_erv_post(Fresh(O), now, speed)} :
         /\ SetO(o1)
         /\ erv_device' = ErvDeviceAfter(erv_device, o1.erv_cmd, TRUE)
    /\ UNCHANGED <<now, smVars, heat_band>>

HandleHvacPost(mode, cmd_ok) ==
    /\ CanHandle
    /\ \E o1 \in {handle_hvac_post(Fresh(O), now, mode, cmd_ok)} : SetO(o1)
    /\ UNCHANGED <<now, smVars, erv_device, heat_band>>

\* the loop runs the created _evaluate_hvac_state task
EvaluateHvacState(within_hours, status_ok, cmd_ok) ==
    /\ hvac_eval_pending
    /\ \E o1 \in {evaluate_hvac_state([Fresh(O) EXCEPT !.hvac_eval_pending = FALSE],
                                     SM, within_hours, status_ok, cmd_ok)} : SetO(o1)
    /\ UNCHANGED <<now, smVars, erv_device, heat_band>>

\* the loop runs a created timer task up to its await asyncio.sleep(...)
TaskStart(tk) ==
    /\ tk.st = "created"
    /\ tasks' = (tasks \ {tk}) \cup
                {[tk EXCEPT !.st = "sleeping", !.due = now + SleepTime(tk.kind)]}
    /\ UNCHANGED <<now, state, mac_last_active, external_monitor, motion_detected,
                   motion_last_seen, door_open, door_last_changed, window_open,
                   last_door_state, verifying_departure,
                   departure_verification_task, door_open_away_task, callbacks,
                   orchVars, heat_band>>

\* the loop delivers CancelledError to a cancelled timer task
TaskCancelled(tk) ==
    /\ tk.st = "cancelled"
    /\ \E s1 \in {timer_cancelled(SM, tk)} : SetSM(s1)
    /\ UNCHANGED <<now, orchVars, heat_band>>

\* a timer's sleep is over: the rest of the coroutine runs
TimerExpire(s) ==
    /\ \E s1 \in {s} :
         /\ SetSM(s1)
         /\ \E o1 \in {notify_state_change(Fresh(O), state, s1, now)} :
              /\ SetO(o1)
              /\ erv_device' = ErvDeviceAfter(erv_device, o1.erv_cmd, TRUE)
    /\ UNCHANGED <<now, heat_band>>

DepartureVerificationTimer(tk) ==
    /\ tk.kind = "departure" /\ tk.st = "sleeping" /\ tk.due <= now
    /\ TimerExpire(departure_verification_timer(SM, tk))

DoorOpenAwayTimer(tk) ==
    /\ tk.kind = "door_open_away" /\ tk.st = "sleeping" /\ tk.due <= now
    /\ TimerExpire(door_open_away_timer(SM, now, tk))

\* the loop has nothing ready to run: time passes
Tick(maxTicks) ==
    /\ LoopIdle
    /\ now < StartTime + maxTicks
    /\ now' = now + 1
    /\ UNCHANGED <<smVars, orchVars, heat_band>>

\* the loop runs a timer task: its first step, the delivery of CancelledError,
\* or the rest of the departure-verification coroutine
TimerTasks ==
    \/ \E tk \in tasks : TaskStart(tk)
    \/ \E tk \in tasks : TaskCancelled(tk)
    \/ \E tk \in tasks : DepartureVerificationTimer(tk)

(* ---------------- occupancy: sensors and timers only ---------------- *)

InitOccupancy ==
    now = StartTime /\ InitSM /\ InitOrch({FALSE}, {"off"}, HistorySizeVentilation)
    /\ heat_band = NoHeatBandCall

NextOccupancy ==
    \/ \E b \in BOOLEAN : HandleYolinkDoor(b)
    \/ \E b \in BOOLEAN : HandleYolinkWindow(b)
    \/ \E b \in BOOLEAN : HandleYolinkMotion(b)
    \/ \E ts \in MacTimestamps, m \in BOOLEAN : HandleOccupancyPost(ts, m)
    \/ TimerTasks
    \/ \E tk \in tasks : DoorOpenAwayTimer(tk)
    \/ \E h, so, co \in BOOLEAN : EvaluateHvacState(h, so, co)
    \/ Tick(MaxTicks)

SpecOccupancy == InitOccupancy /\ [][NextOccupancy]_vars

(* ---------------- occupancy: properties ---------------- *)

\* a presence signal arriving during departure verification: motion detected,
\* or a workstation report whose activity is newer than the door's last change
PresenceDuringVerification ==
    \/ HandleYolinkMotion(TRUE)
    \/ \E m \in BOOLEAN : now > door_last_changed /\ HandleOccupancyPost(now, m)

\* C2: while a departure-verification timer is pending, a motion-detected
\* event or workstation activity newer than the door's last change cancels
\* it: no departure timer is left to commit AWAY once the event is handled,
\* whatever sequence of door events led to the pending timer.
C2_PresenceCancelsDeparture ==
    [][(/\ state = "present"
        /\ LiveTasks(tasks, "departure") # {}
        /\ PresenceDuringVerification)
       => LiveTasks(tasks', "departure") = {}]_vars

\* C4: at any time at most one departure-verification timer and at most one
\* door-open-away timer is live.
C4_OneLiveTimerPerKind ==
    /\ Cardinality(LiveTasks(tasks, "departure")) <= 1
    /\ Cardinality(LiveTasks(tasks, "door_open_away")) <= 1

\* an event of new activity: motion detected, or a workstation report with an
\* external monitor attached and activity right now
ActivityEvent ==
    \/ HandleYolinkMotion(TRUE)
    \/ HandleOccupancyPost(now, TRUE)

LastActivity ==
    IF external_monitor /\ mac_last_active > motion_last_seen
    THEN mac_last_active
    ELSE motion_last_seen

\* the most recent activity happened in door-held-open mode
ActivityInDoorOpenMode ==
    LastActivity - door_last_changed >= door_open_threshold_minutes

\* an event that carries no new activity: a window event, a motion-clear
\* event, a workstation report repeating the previous report
NoActivityEvent ==
    \/ \E b \in BOOLEAN : HandleYolinkWindow(b)
    \/ HandleYolinkMotion(FALSE)
    \/ HandleOccupancyPost(mac_last_active, external_monitor)

\* C9: in door-held-open mode, once the state is AWAY again and the last
\* activity (which happened in that mode) is at least the door-open-away
\* timeout old, an event that carries no new activity leaves the state AWAY.
C9_NoActivityKeepsAway ==
    [][(/\ state = "away"
        /\ in_door_open_mode(SM, now)
        /\ ActivityInDoorOpenMode
        /\ now - LastActivity >= door_open_away_timeout_minutes
        /\ NoActivityEvent)
       => state' = "away"]_vars

\* C10: a door-open-away timer never commits PRESENT -> AWAY less than the
\* door-open-away timeout after the most recent motion or
\* workstation-activity event of the door-held-open mode.
C10_AwayOnlyAfterTimeout ==
    [][(/\ state = "present"
        /\ state' = "away"
        /\ ActivityInDoorOpenMode
        /\ \E tk \in tasks : DoorOpenAwayTimer(tk))
       => now - LastActivity >= door_open_away_timeout_minutes]_vars

(* ---------------- ventilation: sensors, CO2 readings, manual ERV requests ---------------- *)

\* CO2 around the hysteresis band of the PRESENT branch
CO2Values == {1799, 1800, 2000}

Readings == [co2 : CO2Values, tvoc : {NoneVal}, temp_c : {NoneVal}]

\* speeds requested with POST /erv
ErvSpeeds == {"off", "turbo"}

Init ==
    now = StartTime /\ InitSM /\ InitOrch({FALSE}, {"off"}, HistorySizeVentilation)
    /\ heat_band = NoHeatBandCall

\* readings are delivered on the MQTT client's thread, where
\* asyncio.get_event_loop() raises RuntimeError
Next ==
    \/ \E b \in BOOLEAN : HandleYolinkDoor(b)
    \/ \E b \in BOOLEAN : HandleYolinkWindow(b)
    \/ \E b \in BOOLEAN : HandleYolinkMotion(b)
    \/ \E r \in Readings : OnQingpingReading(r, FALSE)
    \/ \E sp \in ErvSpeeds : HandleErvPost(sp)
    \/ TimerTasks
    \/ \E h, so, co \in BOOLEAN : EvaluateHvacState(h, so, co)
    \/ Tick(MaxTicksClimate)

Spec == Init /\ [][Next]_vars

(* ---------------- ventilation: properties ---------------- *)

\* C1: in every reachable state in which the window or the door is open, the
\* ERV is commanded OFF (the last command sent to it is not a turn_on),
\* whatever the occupancy state, the readings and the manual ERV override.
C1_InterlockErvOff ==
    safety_interlock_active(SM) => ~erv_running

\* C3: while PRESENT with no interlock and no manual override, an evaluation
\* that finds the ERV in QUIET leaves it in QUIET, with no command sent, for
\* every CO2 of at least 1800 ppm, and turns it OFF for a CO2 below 1800 ppm.
C3_Co2Hysteresis ==
    [][\A r \in Readings :
         (/\ state = "present"
          /\ ~safety_interlock_active(SM)
          /\ ~manual_erv_override
          /\ erv_running /\ erv_speed = "quiet"
          /\ OnQingpingReading(r, FALSE))
         => IF r.co2 >= 1800
            THEN erv_running' /\ erv_speed' = "quiet" /\ erv_cmd' = "none"
            ELSE ~erv_running' /\ erv_speed' = "off" /\ erv_cmd' = "off"]_vars

\* the ERV was put in QUIET at 2000 ppm and an evaluation at 1800 ppm has
\* just left it there
C3_Witness ==
    /\ state = "present"
    /\ ~safety_interlock_active(SM)
    /\ ~manual_erv_override
    /\ erv_running /\ erv_speed = "quiet"
    /\ latest_reading.co2 = 1800
    /\ erv_cmd = "none"

\* the decision of the automatic logic for a reading r: PRESENT, the CO2
\* hysteresis; AWAY with CO2 above the refresh target (every CO2 of Readings
\* is), the ERV ventilates
AutomaticDecision(r) ==
    IF state = "present"
    THEN IF r.co2 >= 2000 THEN erv_running' /\ erv_speed' = "quiet"
         ELSE IF erv_running /\ erv_speed = "quiet" /\ r.co2 >= 1800
              THEN erv_running' /\ erv_speed' = "quiet"
              ELSE ~erv_running'
    ELSE erv_running' /\ erv_speed' # "off"

\* C5: with no interlock, an evaluation made less than the override timeout
\* after a manual ERV request leaves the ERV at the requested speed and
\* keeps the override; an evaluation made more than the timeout after it
\* clears the override and decides by the automatic logic.
C5_ManualOverrideExpiry ==
    [][\A r \in Readings :
         (/\ manual_erv_override
          /\ ~safety_interlock_active(SM)
          /\ OnQingpingReading(r, FALSE))
         => IF now - manual_erv_override_at < manual_override_timeout
            THEN /\ manual_erv_override'
                 /\ manual_erv_speed' = manual_erv_speed
                 /\ erv_running' = (manual_erv_speed # "off")
                 /\ erv_speed' = manual_erv_speed
            ELSE IF now - manual_erv_override_at > manual_override_timeout
            THEN /\ ~manual_erv_override'
                 /\ manual_erv_speed' = "none"
                 /\ AutomaticDecision(r)
            ELSE TRUE]_vars

(* ---------------- heating: window, readings, manual requests, HVAC evaluation ---------------- *)

\* clock ticks explored by the heating specification
MaxTicksHvac == 1

\* tVOC above the AWAY threshold and below the AWAY target; 10 C = 50 F is
\* below hvac_critical_temp_f, 25 C = 77 F is above hvac_min_temp_f
HvacReadings == [co2 : {NoneVal}, tvoc : {20, 300}, temp_c : {10, 25}]

\* modes requested with POST /hvac
HvacModes == {"off", "heat"}

InitHvac ==
    now = StartTime /\ InitSM /\ InitOrch({FALSE}, {"off", "heat"}, HistorySizeVentilation)
    /\ heat_band = NoHeatBandCall

\* a reading is handled on the thread that delivers it: asyncio.get_event_loop()
\* either finds the loop there or raises RuntimeError
NextHvac ==
    \/ \E b \in BOOLEAN : HandleYolinkWindow(b)
    \/ \E b \in BOOLEAN : HandleYolinkMotion(b)
    \/ \E r \in HvacReadings, loop \in BOOLEAN : OnQingpingReading(r, loop)
    \/ \E sp \in ErvSpeeds : HandleErvPost(sp)
    \/ \E m \in HvacModes, ok \in BOOLEAN : HandleHvacPost(m, ok)
    \/ \E h, so, co \in BOOLEAN : EvaluateHvacState(h, so, co)
    \/ Tick(MaxTicksHvac)

SpecHvac == InitHvac /\ [][NextHvac]_vars

(* ---------------- heating: properties ---------------- *)

\* _evaluate_erv_state called again in the current state
ErvReevaluated == evaluate_erv_state(Fresh(O), SM, now, FALSE)

\* _evaluate_hvac_state called again in the current state
HvacReevaluated(within_hours, status_ok, cmd_ok) ==
    evaluate_hvac_state(Fresh(O), SM, within_hours, status_ok, cmd_ok)

\* a step in which _evaluate_erv_state ran: a reading was handled, or the
\* occupancy state changed to PRESENT
ErvEvaluationStep ==
    \/ \E r \in HvacReadings, loop \in BOOLEAN : OnQingpingReading(r, loop)
    \/ state = "away" /\ state' = "present"

\* a repeated ERV evaluation sends nothing, logs nothing, changes nothing
ErvRepeatIsSilent ==
    ErvEvaluationStep => (ErvReevaluated = Fresh(O))'

C7_InterlockNoHeat ==
    [][\A h, so, co \in BOOLEAN :
         (safety_interlock_active(SM) /\ EvaluateHvacState(h, so, co))
         => hvac_cmd' \notin {"heat", "cool"}]_vars

(* ---------------- overrides: door, motion, timers, manual requests ---------------- *)

InitOverride ==
    now = StartTime /\ InitSM /\ InitOrch({FALSE}, {"off", "heat"}, HistorySizeVentilation)
    /\ heat_band = NoHeatBandCall

NextOverride ==
    \/ \E b \in BOOLEAN : HandleYolinkDoor(b)
    \/ \E b \in BOOLEAN : HandleYolinkMotion(b)
    \/ \E sp \in ErvSpeeds : HandleErvPost(sp)
    \/ \E m \in HvacModes, ok \in BOOLEAN : HandleHvacPost(m, ok)
    \/ TimerTasks
    \/ \E h, so, co \in BOOLEAN : EvaluateHvacState(h, so, co)
    \/ Tick(MaxTicksClimate)

SpecOverride == InitOverride /\ [][NextOverride]_vars

(* ---------------- overrides: properties ---------------- *)

\* C11: every step that changes the occupancy state (AWAY to PRESENT or
\* PRESENT to AWAY, by an evaluation or by a timer) leaves no manual ERV
\* override and no manual HVAC override behind; the evaluation made on
\* arrival decides by the automatic PRESENT logic (no CO2 reading: the ERV is
\* off), whatever speed had been requested.
C11_TransitionClearsOverrides ==
    [][state' # state
       => /\ ~manual_erv_override' /\ manual_erv_speed' = "none"
          /\ manual_erv_override_at' = NoneVal
          /\ ~manual_hvac_override' /\ manual_hvac_mode' = "none"
          /\ manual_hvac_override_at' = NoneVal
          /\ state' = "present" => ~erv_running' /\ erv_speed' = "off"]_vars

\* a departure-verification timer has just committed AWAY while the ERV runs
\* on a manual request made before: the overrides are gone
C11_Witness ==
    /\ state = "away"
    /\ erv_running
    /\ ~manual_erv_override
    /\ ~manual_hvac_override
    /\ kumo_mode = "heat"
    /\ hvac_cmd = "none"
    /\ tasks = {}
    /\ ~verifying_departure
    /\ last_door_state = "closed"

(* ---------------- frost protection: readings, manual requests, HVAC evaluation ---------------- *)

\* start() records the heat pump's operationMode, whichever it is
InitFreeze ==
    now = StartTime /\ InitSM /\ InitOrch({FALSE}, {"off", "heat", "cool"}, HistorySizeVentilation)
    /\ heat_band = NoHeatBandCall

NextFreeze ==
    \/ \E b \in BOOLEAN : HandleYolinkMotion(b)
    \/ \E r \in HvacReadings, loop \in BOOLEAN : OnQingpingReading(r, loop)
    \/ \E sp \in ErvSpeeds : HandleErvPost(sp)
    \/ \E m \in HvacModes, ok \in BOOLEAN : HandleHvacPost(m, ok)
    \/ \E h, so, co \in BOOLEAN : EvaluateHvacState(h, so, co)
    \/ Tick(MaxTicksHvac)

SpecFreeze == InitFreeze /\ [][NextFreeze]_vars

\* the temperature of the latest reading is below hvac_critical_temp_f
TempCritical == get_temp_f(O) # NoneVal /\ get_temp_f(O) < hvac_critical_temp_f

\* C12: while AWAY, an HVAC evaluation that sees a temperature below
\* hvac_critical_temp_f sends a HEAT command unless the heat pump is already
\* heating, whatever the HVAC mode, the suspension flag, the ERV, the
\* occupancy hours and the manual overrides are.
C12_CriticalTempForcesHeat ==
    [][\A h, so, co \in BOOLEAN :
         (state = "away" /\ TempCritical /\ EvaluateHvacState(h, so, co))
         => \/ hvac_cmd' = "heat"
            \/ kumo_mode = "heat" /\ hvac_cmd' = "none"]_vars

\* the manual HVAC override is set and its timeout has not elapsed
ManualHvacOverrideActive ==
    /\ manual_hvac_override
    /\ now - manual_hvac_override_at <= manual_override_timeout

\* C13: while a manual HVAC override is active, an HVAC evaluation (outside
\* frost protection) sends no command and leaves the heat pump in the
\* requested mode.
C13_ManualHvacOverrideBypasses ==
    [][\A h, so, co \in BOOLEAN :
         (/\ ManualHvacOverrideActive
          /\ ~TempCritical
          /\ EvaluateHvacState(h, so, co))
         => /\ hvac_cmd' = "none"
            /\ kumo_mode' = kumo_mode
            /\ ~hvac_suspended']_vars

(* ---------------- occupancy: notification of the observers ---------------- *)

\* a step in which StateMachine.evaluate ran or a timer's sleep ended
EvaluationOrExpiry ==
    \/ \E b \in BOOLEAN : HandleYolinkDoor(b)
    \/ \E b \in BOOLEAN : HandleYolinkWindow(b)
    \/ \E b \in BOOLEAN : HandleYolinkMotion(b)
    \/ \E ts \in MacTimestamps, m \in BOOLEAN : HandleOccupancyPost(ts, m)
    \/ \E tk \in tasks : DepartureVerificationTimer(tk)
    \/ \E tk \in tasks : DoorOpenAwayTimer(tk)

\* C14: a step that changes the occupancy state calls the observer exactly
\* once, with the state before and the state after the step; an evaluation
\* or a timer expiry that leaves the state unchanged calls no observer.
C14_NotifiedOncePerTransition ==
    [][/\ state' # state => notified' = << <<state, state'>> >>
       /\ (state' = state /\ EvaluationOrExpiry) => notified' = <<>>]_vars

\* the door-open-away timer has just committed AWAY and the observer was
\* called with (PRESENT, AWAY)
C14_Witness ==
    /\ state = "away"
    /\ notified = << <<"present", "away">> >>
    /\ in_door_open_mode(SM, now)
    /\ door_open_away_task = 0

(* ---------------- ventilation: arrival inside the hysteresis band ---------------- *)

\* the latest CO2 reading is inside the hysteresis band of the PRESENT branch
Co2InBand ==
    /\ latest_reading.co2 # NoneVal
    /\ latest_reading.co2 >= co2_critical_ppm - co2_critical_hysteresis_ppm
    /\ latest_reading.co2 < co2_critical_ppm

\* a step that changes the occupancy from AWAY to PRESENT with CO2 inside
\* the band and neither the window nor the door open
ArrivalInBand ==
    /\ state = "away" /\ state' = "present"
    /\ Co2InBand
    /\ ~safety_interlock_active(SM)'

\* C15 as stated: if the ERV is running when the occupancy changes from AWAY
\* to PRESENT with CO2 inside the hysteresis band, the ERV is on at QUIET
\* after the evaluation of the transition.
C15_ArrivalKeepsRunning ==
    [][(ArrivalInBand /\ erv_running)
       => erv_running' /\ erv_speed' = "quiet"]_vars

\* C15, amended: if the ERV is recorded as running at QUIET when the
\* occupancy changes from AWAY to PRESENT with CO2 inside the hysteresis
\* band and no window or door open, the evaluation of the transition leaves
\* it running at QUIET and sends no command; an ERV recorded at any other
\* speed is turned OFF.
C15_ArrivalKeepsQuiet ==
    [][(ArrivalInBand /\ erv_running)
       => IF erv_speed = "quiet"
          THEN erv_running' /\ erv_speed' = "quiet" /\ erv_cmd' = "none"
          ELSE ~erv_running' /\ erv_speed' = "off" /\ erv_cmd' = "off"]_vars

\* the observer has just been told (AWAY, PRESENT) and the ERV, in QUIET
\* since before the departure, still runs in QUIET at 1800 ppm
C15_Witness ==
    /\ state = "present"
    /\ notified = << <<"away", "present">> >>
    /\ erv_running /\ erv_speed = "quiet"
    /\ latest_reading.co2 = 1800
    /\ erv_cmd = "none"
    /\ ~manual_erv_override

(* ---------------- ventilation: ERV commands that fail ---------------- *)

InitErvFailure ==
    now = StartTime /\ InitSM /\ InitOrch({FALSE}, {"off"}, HistorySizeVentilation)
    /\ heat_band = NoHeatBandCall

\* the ERV client may report failure for the command of an evaluation
NextErvFailure ==
    \/ \E b \in BOOLEAN : HandleYolinkMotion(b)
    \/ \E r \in HvacReadings, loop, erv_ok \in BOOLEAN : OnQingpingReadingErv(r, loop, erv_ok)
    \/ \E h, so, co \in BOOLEAN : EvaluateHvacState(h, so, co)
    \/ Tick(MaxTicksHvac)

SpecErvFailure == InitErvFailure /\ [][NextErvFailure]_vars

\* the speed the coordinator has recorded as applied
RecordedSpeed == IF erv_running THEN erv_speed ELSE "off"

\* C16: an evaluation that sends no ERV command finds the ERV at the speed
\* it has recorded: a command that failed is sent again by the next
\* evaluation that derives the same speed, never withheld because the speed
\* was recorded as applied.
C16_FailedCommandResent ==
    [][\A r \in HvacReadings, loop, erv_ok \in BOOLEAN :
         (OnQingpingReadingErv(r, loop, erv_ok) /\ erv_cmd' = "none")
         => erv_device' = RecordedSpeed']_vars

(* ---------------- ventilation: audit events ---------------- *)

\* C17: every evaluation whose interlock or automatic logic (PRESENT or
\* AWAY) changes the ERV speed, that is sends a command to the ERV, logs an
\* audit event with a reason.
C17_SpeedChangeAudited ==
    [][\A r \in Readings :
         (/\ OnQingpingReading(r, FALSE)
          /\ ~manual_erv_override'
          /\ erv_cmd' # "none")
         => erv_audit' # "none"]_vars

(* ======================= hvac_hysteresis ======================= *)

\* get_heat_band_action with `>` in place of `>=` at the upper edge of the band
get_heat_band_action_strict_upper(temp_f, mode, temp_band_paused, st, running, min_temp_f, within_occupancy_hours, heat_off_temp_f, heat_on_temp_f) ==
    IF temp_f = NoneVal THEN "none"
    ELSE IF mode = "heat" /\ temp_f > heat_off_temp_f THEN "pause"
    ELSE IF ~(temp_band_paused /\ mode = "off" /\ temp_f <= heat_on_temp_f)
         THEN "none"
    ELSE IF st = "away" /\ running /\ temp_f > min_temp_f THEN "none"
    ELSE IF st = "away" /\ ~within_occupancy_hours THEN "none"
    ELSE "resume"

\* get_heat_band_action; "none" is Python None
get_heat_band_action(temp_f, mode, temp_band_paused, st, running, min_temp_f, within_occupancy_hours, heat_off_temp_f, heat_on_temp_f) ==
    IF temp_f = NoneVal THEN "none"
    ELSE IF mode = "heat" /\ temp_f >= heat_off_temp_f THEN "pause"
    ELSE IF ~(temp_band_paused /\ mode = "off" /\ temp_f <= heat_on_temp_f)
         THEN "none"
    ELSE IF st = "away" /\ running /\ temp_f > min_temp_f THEN "none"
    ELSE IF st = "away" /\ ~within_occupancy_hours THEN "none"
    ELSE "resume"

\* temperatures around the band edges and hvac_min_temp_f; NoneVal = unknown
HeatBandTemps == {NoneVal, 68, 69, 71, 73, 75, 76}

\* (heat_on_temp_f, heat_off_temp_f): a proper band, an empty one, a reversed one
HeatBands == {<<71, 75>>, <<73, 73>>, <<75, 71>>}

HeatBandArgs ==
    [temp_f : HeatBandTemps, hvac_mode : {"heat", "off", "cool"},
     temp_band_paused : BOOLEAN, state : {"present", "away"},
     erv_running : BOOLEAN, min_temp_f : {hvac_min_temp_f},
     within_occupancy_hours : BOOLEAN, band : HeatBands]

InitHeatBand ==
    /\ now = StartTime /\ InitSM /\ InitOrch({FALSE}, {"off"}, HistorySizeVentilation)
    /\ heat_band \in [args : HeatBandArgs, action : {"pending"}]

\* the call is made with the drawn arguments
GetHeatBandAction ==
    /\ heat_band.action = "pending"
    /\ heat_band' = [heat_band EXCEPT !.action =
           get_heat_band_action(heat_band.args.temp_f, heat_band.args.hvac_mode,
                                heat_band.args.temp_band_paused, heat_band.args.state,
                                heat_band.args.erv_running, heat_band.args.min_temp_f,
                                heat_band.args.within_occupancy_hours,
                                heat_band.args.band[2], heat_band.args.band[1])]
    /\ UNCHANGED <<now, smVars, orchVars>>

NextHeatBand == GetHeatBandAction

SpecHeatBand == InitHeatBand /\ [][NextHeatBand]_vars

\* the decision table of the heat band for arguments a
HeatBandTable(a) ==
    LET heat_on == a.band[1]
        heat_off == a.band[2]
        pause == a.hvac_mode = "heat" /\ a.temp_f >= heat_off
        resume == /\ a.temp_band_paused
                  /\ a.hvac_mode = "off"
                  /\ a.temp_f <= heat_on
                  /\ a.state = "away"
                     => /\ a.within_occupancy_hours
                        /\ ~(a.erv_running /\ a.temp_f > a.min_temp_f)
    IN CASE a.temp_f = NoneVal -> "none"
         [] a.temp_f # NoneVal /\ pause -> "pause"
         [] a.temp_f # NoneVal /\ ~pause /\ resume -> "resume"
         [] OTHER -> "none"

\* C18: get_heat_band_action returns what the decision table says (None for
\* an unknown temperature, else pause for heat at or above heat_off, else
\* resume exactly when paused, off, at or below heat_on and, in AWAY, within
\* occupancy hours and not (ERV running and temp > min_temp), else None);
\* with heat_on < heat_off it returns None strictly inside the band.
C18_HeatBandTable ==
    heat_band.action \notin {"pending"} /\ heat_band # NoHeatBandCall
    => /\ heat_band.action = HeatBandTable(heat_band.args)
       /\ (/\ heat_band.args.band[1] < heat_band.args.band[2]
           /\ heat_band.args.temp_f > heat_band.args.band[1]
           /\ heat_band.args.temp_f < heat_band.args.band[2])
          => heat_band.action = "none"

\* resume was returned in AWAY: paused, off, exactly at heat_on, within
\* occupancy hours, the ERV running but the temperature not above min_temp
C18_Witness ==
    /\ heat_band # NoHeatBandCall
    /\ heat_band.action = "resume"
    /\ heat_band.args.state = "away"
    /\ heat_band.args.erv_running
    /\ heat_band.args.temp_f = 68
    /\ heat_band.args.band = <<71, 75>>

(* ======================= stale-air flush ======================= *)
(* The flush is exercised by src/tests/test_away_stale_flush.py; the        *)
(* Orchestrator of src/src/orchestrator.py does not contain it.  The        *)
(* definitions of this section follow the specification's rule for the      *)
(* periodic stale-air flush and the attribute names of the tests.           *)

\* clock ticks explored by the flush specification
MaxTicksFlush == 4
\* ThresholdsConfig.away_stale_flush_interval_hours (8 h), in ticks
away_stale_flush_interval_hours == 2
\* ThresholdsConfig.away_stale_flush_duration_minutes (30 min), in ticks
away_stale_flush_duration_minutes == 1
\* ThresholdsConfig.away_stale_flush_speed
away_stale_flush_speed == "medium"
\* ThresholdsConfig.away_stale_flush_enabled
away_stale_flush_enabled == TRUE

\* _update_room_closed_tracking: an open door or window clears the schedule;
\* the accumulation starts when the room is found closed again
update_room_closed_tracking(o, s, t) ==
    IF s.door_open \/ s.window_open
    THEN [o EXCEPT !.room_closed_since = NoneVal,
                   !.away_stale_flush_active_until = NoneVal,
                   !.away_stale_flush_next_due_at = NoneVal]
    ELSE IF o.room_closed_since = NoneVal
         THEN [o EXCEPT !.room_closed_since = t]
         ELSE o

\* a flush window is open
stale_flush_active(o, t) ==
    o.away_stale_flush_active_until # NoneVal /\ t < o.away_stale_flush_active_until

\* the room has been closed for the interval and the next flush is due
stale_flush_due(o, t) ==
    /\ away_stale_flush_enabled
    /\ o.room_closed_since # NoneVal
    /\ t - o.room_closed_since >= away_stale_flush_interval_hours
    /\ \/ o.away_stale_flush_next_due_at = NoneVal
       \/ t >= o.away_stale_flush_next_due_at

\* a due flush opens its window and schedules the next one
stale_flush_schedule(o, t) ==
    IF ~stale_flush_active(o, t) /\ stale_flush_due(o, t)
    THEN [o EXCEPT !.away_stale_flush_active_until = t + away_stale_flush_duration_minutes,
                   !.away_stale_flush_next_due_at = t + away_stale_flush_interval_hours]
    ELSE o

\* the flush raises the floor: o is the Orchestrator before the evaluation,
\* aq the Orchestrator after the air-quality logic of the AWAY branch
stale_flush_floor(o, aq) ==
    LET aq_speed == IF aq.erv_running THEN aq.erv_speed ELSE "off" IN
    IF SpeedPriority(aq_speed) >= SpeedPriority(away_stale_flush_speed) THEN aq
    ELSE LET base == [aq EXCEPT !.erv_cmd = o.erv_cmd, !.erv_audit = o.erv_audit,
                                !.erv_running = o.erv_running,
                                !.erv_speed = o.erv_speed]
         IN IF ~base.erv_running \/ base.erv_speed # away_stale_flush_speed
            THEN ErvOn(base, away_stale_flush_speed, "stale_flush_due")
            ELSE base

\* the flush step of the AWAY branch, given the schedule sc after
\* stale_flush_schedule
stale_flush_apply(o, sc, t) ==
    IF stale_flush_active(sc, t) THEN stale_flush_floor(o, sc) ELSE sc

\* _evaluate_erv_state with the flush: outside the AWAY branch (interlock,
\* manual override, PRESENT) the flush has no part
evaluate_erv_state_with_flush(o, s, t, loop) ==
    LET o0 == check_manual_override_expiry(o, t) IN
    IF \/ s.window_open \/ s.door_open
       \/ o0.manual_erv_override
       \/ s.state # "away"
       \/ erv_automatic_raises(o0, s, t)
    THEN evaluate_erv_state(o, s, t, loop)
    ELSE stale_flush_apply(o, stale_flush_schedule(evaluate_erv_state(o, s, t, loop), t), t)

\* _on_qingping_reading followed by the evaluation with the flush
on_qingping_reading_with_flush(o, s, t, reading, loop) ==
    LET o1 == [o EXCEPT !.latest_reading = reading]
        o2 == IF reading.tvoc # NoneVal
              THEN [o1 EXCEPT !.tvoc_away_history =
                        DequeAppend(@, <<t, reading.tvoc>>, o.tvoc_away_history_size)]
              ELSE o1
        o3 == IF reading.co2 # NoneVal
              THEN [o2 EXCEPT !.co2_history =
                        DequeAppend(@, <<t, reading.co2>>, o.co2_history_size)]
              ELSE o2
    IN evaluate_erv_state_with_flush(o3, s, t, loop)

OnQingpingReadingFlush(reading, loop) ==
    /\ CanHandle
    /\ \E o1 \in {on_qingping_reading_with_flush(Fresh(O), SM, now, reading, loop)} :
         /\ SetO(o1)
         /\ erv_device' = ErvDeviceAfter(erv_device, o1.erv_cmd, TRUE)
    /\ UNCHANGED <<now, smVars, heat_band>>

\* a window event: the sensor update, the notification of the observers and
\* the tracking of the closed room
HandleYolinkWindowFlush(is_open) ==
    /\ CanHandle
    /\ \E s1 \in {update_window(SM, now, is_open)} :
         /\ SetSM(s1)
         /\ \E o1 \in {update_room_closed_tracking(
                          notify_state_change(Fresh(O), state, s1, now), s1, now)} :
              /\ SetO(o1)
              /\ erv_device' = ErvDeviceAfter(erv_device, o1.erv_cmd, TRUE)
    /\ UNCHANGED <<now, heat_band>>

\* a door event: the sensor update, the notification of the observers and
\* the tracking of the closed room
HandleYolinkDoorFlush(is_open) ==
    /\ CanHandle
    /\ \E s1 \in {update_door(SM, now, is_open)} :
         /\ SetSM(s1)
         /\ \E o1 \in {update_room_closed_tracking(
                          notify_state_change(Fresh(O), state, s1, now), s1, now)} :
              /\ SetO(o1)
              /\ erv_device' = ErvDeviceAfter(erv_device, o1.erv_cmd, TRUE)
    /\ UNCHANGED <<now, heat_band>>

\* CO2 below the refresh target; tVOC below the AWAY target and above the
\* AWAY threshold
FlushReadings == [co2 : {450}, tvoc : {20, 300}, temp_c : {NoneVal}]

InitFlush ==
    now = StartTime /\ InitSM /\ InitOrch({FALSE}, {"off"}, HistorySizeVentilation)
    /\ heat_band = NoHeatBandCall

NextFlush ==
    \/ \E b \in BOOLEAN : HandleYolinkWindowFlush(b)
    \/ \E b \in BOOLEAN : HandleYolinkMotion(b)
    \/ \E r \in FlushReadings : OnQingpingReadingFlush(r, FALSE)
    \/ \E h, so, co \in BOOLEAN : EvaluateHvacState(h, so, co)
    \/ Tick(MaxTicksFlush)

SpecFlush == InitFlush /\ [][NextFlush]_vars

(* ---------------- stale-air flush: properties ---------------- *)

\* the air-quality logic of the AWAY branch asks for no ventilation for
\* reading r: CO2 at or below the refresh target, tVOC at or below the AWAY
\* target
AirQualityIdle(r) ==
    r.co2 <= co2_refresh_target_ppm /\ r.tvoc <= tvoc_away_target

\* the room is closed, has been for the interval, and a flush is due or its
\* window is open
FlushDueOrActive ==
    /\ ~safety_interlock_active(SM)
    /\ \/ stale_flush_active(O, now)
       \/ stale_flush_due(O, now)

\* the flush window has ended and the next flush is not yet due
FlushOver ==
    /\ away_stale_flush_active_until # NoneVal
    /\ now >= away_stale_flush_active_until
    /\ now < away_stale_flush_next_due_at

AdaptiveChoice(r) ==
    LET aq == on_qingping_reading(Fresh(O), SM, now, r, FALSE)
    IN IF aq.erv_running THEN aq.erv_speed ELSE "off"

MaxTicksFlushRoom == 2

InitFlushRoom ==
    now = StartTime /\ InitSM /\ InitOrch({FALSE}, {"off"}, HistorySizeVentilation)
    /\ heat_band = NoHeatBandCall

NextFlushRoom ==
    \/ \E b \in BOOLEAN : HandleYolinkWindowFlush(b)
    \/ \E b \in BOOLEAN : HandleYolinkDoorFlush(b)
    \/ \E b \in BOOLEAN : HandleYolinkMotion(b)
    \/ TimerTasks
    \/ \E r \in FlushReadings : OnQingpingReadingFlush(r, FALSE)
    \/ \E h, so, co \in BOOLEAN : EvaluateHvacState(h, so, co)
    \/ Tick(MaxTicksFlushRoom)

SpecFlushRoom == InitFlushRoom /\ [][NextFlushRoom]_vars

\* the flush schedule is empty
FlushScheduleCleared ==
    /\ room_closed_since = NoneVal
    /\ away_stale_flush_active_until = NoneVal
    /\ away_stale_flush_next_due_at = NoneVal

\* a door or window event of the given position is handled
RoomEvent(is_open) ==
    HandleYolinkDoorFlush(is_open) \/ HandleYolinkWindowFlush(is_open)

ReportWithoutMonitor ==
    \E ts \in MacTimestamps : HandleOccupancyPost(ts, FALSE)

\* C22: a departure-verification timer whose sleep ends while the state is
\* PRESENT commits AWAY and resets the motion signal, and an event that is
\* not a presence signal (a workstation report with no external monitor
\* attached) leaves the pending departure timers pending.
C22_DepartureCommitsWithoutPresence ==
    [][/\ (state = "present" /\ \E tk \in tasks : DepartureVerificationTimer(tk))
          => /\ state' = "away"
             /\ ~motion_detected' /\ motion_last_seen' = 0
       /\ (state = "present" /\ ReportWithoutMonitor)
          => LiveTasks(tasks', "departure") = LiveTasks(tasks, "departure")]_vars

(* ---------------- arrival outside door-held-open mode ---------------- *)

\* a step in which StateMachine.evaluate ran
EvaluationStep ==
    \/ \E b \in BOOLEAN : HandleYolinkDoor(b)
    \/ \E b \in BOOLEAN : HandleYolinkWindow(b)
    \/ \E b \in BOOLEAN : HandleYolinkMotion(b)
    \/ \E ts \in MacTimestamps, m \in BOOLEAN : HandleOccupancyPost(ts, m)

\* motion is detected or was seen within motionTimeoutSeconds
MotionRecent ==
    motion_detected \/ now - motion_last_seen < motion_timeout_seconds

\* workstation activity newer than the door's last change, external monitor
\* attached
WorkstationSignal ==
    external_monitor /\ mac_last_active > door_last_changed

\* the presence signal: (a) recent motion while the door is closed, or (b)
\* the workstation signal
PresenceSignal ==
    (MotionRecent /\ ~door_open) \/ WorkstationSignal

\* the presence signal with the motion required to be newer than the door's
\* last change
PresenceSignalAfterDoor ==
    \/ MotionRecent /\ ~door_open /\ motion_last_seen > door_last_changed
    \/ WorkstationSignal

\* C23 as stated: outside door-held-open mode an evaluation moves AWAY to
\* PRESENT if and only if the presence signal (a) or (b) holds.
C23_ArrivalIffPresenceSignal ==
    [][(state = "away" /\ EvaluationStep /\ ~in_door_open_mode(SM, now)')
       => (state' = "present" <=> PresenceSignal')]_vars

\* C23, amended: outside door-held-open mode an evaluation moves AWAY to
\* PRESENT if and only if (a) motion is detected or recent, was last seen
\* after the door's last change, and the door is closed, or (b) the
\* workstation signal holds.
C23_ArrivalIffPresenceAfterDoor ==
    [][(state = "away" /\ EvaluationStep /\ ~in_door_open_mode(SM, now)')
       => (state' = "present" <=> PresenceSignalAfterDoor')]_vars

\* an arrival by workstation activity alone: the report with the monitor
\* attached has just been evaluated, no motion was ever seen
C23_Witness ==
    /\ state = "present"
    /\ ~door_open
    /\ WorkstationSignal
    /\ motion_last_seen = 0 /\ ~motion_detected
    /\ mac_last_active = now
    /\ notified = << <<"away", "present">> >>

(* ---------------- departure only after a door sequence ---------------- *)

\* departure-verification timers created by the step
NewDepartureTimers ==
    {tk \in tasks' : tk.kind = "departure" /\ tk.st = "created"} \ tasks

\* C24: outside door-held-open mode every PRESENT -> AWAY transition is the
\* expiry of a departure-verification timer, and a departure-verification
\* timer is only created by a door close event that follows an observed
\* open door.
C24_DepartureNeedsDoorSequence ==
    [][/\ (state = "present" /\ state' = "away" /\ ~in_door_open_mode(SM, now))
          => \E tk \in tasks : DepartureVerificationTimer(tk)
       /\ NewDepartureTimers # {}
          => /\ HandleYolinkDoor(FALSE)
             /\ last_door_state = "open"
             /\ state = "present"]_vars

\* a departure has just been committed with the door closed, the motion
\* signal reset by the timer
C24_Witness ==
    /\ state = "away"
    /\ ~door_open
    /\ notified = << <<"present", "away">> >>
    /\ motion_last_seen = 0 /\ ~motion_detected
    /\ door_last_changed = now - departure_verification_seconds

(* ---------------- a late motion-clear event ---------------- *)

\* the motion signal is as the departure commit left it: no motion-detected
\* event has arrived since
MotionSignalReset ==
    motion_last_seen = 0 /\ ~motion_detected

\* C25: while AWAY with the motion signal reset by the departure commit and
\* no workstation activity newer than the door's last change, a motion-clear
\* event leaves the state AWAY.
C25_MotionClearKeepsAway ==
    [][(/\ state = "away"
        /\ MotionSignalReset
        /\ ~WorkstationSignal
        /\ HandleYolinkMotion(FALSE))
       => state' = "away"]_vars

(* ---------------- the door is closed in door-held-open mode ---------------- *)

\* C26: a door close event handled in door-held-open mode leaves no
\* door-open-away timer that may still commit AWAY, and in PRESENT it
\* creates a departure-verification timer within the event.
C26_CloseExitsDoorOpenMode ==
    [][(HandleYolinkDoor(FALSE) /\ in_door_open_mode(SM, now))
       => /\ LiveTasks(tasks', "door_open_away") = {}
          /\ state = "present"
             => /\ NewDepartureTimers # {}
                /\ verifying_departure'
                /\ departure_verification_task' # 0]_vars

(* ---------------- entry to AWAY ---------------- *)

\* C27: a step that commits a transition to AWAY leaves both rate windows
\* empty and the AWAY start time set to the time of the transition.
C27_AwayEntryClearsWindows ==
    [][(state # "away" /\ state' = "away")
       => /\ co2_history' = <<>>
          /\ tvoc_away_history' = <<>>
          /\ away_start_time' = now]_vars

(* ---------------- the initial TURBO window ---------------- *)

\* the last handler that ran committed the departure: the state is AWAY and
\* no event has been handled since, so at most the explored clock ticks
\* (far fewer than the 30 minutes of the turbo window) have passed
JustEnteredAway ==
    state = "away" /\ notified = << <<"present", "away">> >>

\* C28: the evaluation of the first reading after the entry to AWAY, with
\* CO2 above the refresh target and the room closed, commands TURBO.
C28_TurboWindowAfterEntry ==
    [][\A r \in Readings :
         (/\ OnQingpingReading(r, FALSE)
          /\ JustEnteredAway
          /\ ~safety_interlock_active(SM)
          /\ ~manual_erv_override
          /\ r.co2 > co2_refresh_target_ppm)
         => /\ erv_running' /\ erv_speed' = "turbo"
            /\ erv_device' = "turbo"]_vars

(* ---------------- AWAY: rate-based ventilation ---------------- *)

\* clock ticks explored by the rate specification (one tick = one minute)
MaxTicksAdaptive == 2
\* co2_history_size / tvoc_away_history_size of the rate specification: the
\* windows hold enough samples for a rate and for the plateau test
HistorySizeAdaptive == 2

\* ThresholdsConfig.co2_rate_*_threshold, in tenths of a ppm per minute
co2_rate_turbo_threshold_x10 == 80
co2_rate_medium_threshold_x10 == 20
co2_rate_quiet_threshold_x10 == 5

\* CO2 below and above the refresh target, below and above the plateau
\* ceiling; tVOC absent, near the AWAY target and above the AWAY threshold
AdaptiveReadings ==
    [co2 : {450, 550, 551, 560, 700}, tvoc : {NoneVal, 50, 300}, temp_c : {NoneVal}]

\* the Orchestrator constructed while nobody is in the room: AWAY from the
\* start, no entry to AWAY and so no initial turbo window
InitAdaptive ==
    now = StartTime /\ InitSM /\ InitOrch({FALSE}, {"off"}, HistorySizeAdaptive)
    /\ heat_band = NoHeatBandCall

NextAdaptive ==
    \/ \E b \in BOOLEAN : HandleYolinkWindow(b)
    \/ \E r \in AdaptiveReadings : OnQingpingReading(r, FALSE)
    \/ Tick(MaxTicksAdaptive)

SpecAdaptive == InitAdaptive /\ [][NextAdaptive]_vars

\* the CO2 window once reading r is appended, and its rate of change
Co2WindowWith(r) == DequeAppend(co2_history, <<now, r.co2>>, co2_history_size)

Co2RateWith(r) == calculate_rate_of_change(Co2WindowWith(r))

\* the plateau criteria: enough samples, rate magnitude below the plateau
\* threshold, current CO2 not above the ceiling
Co2PlateauCriteria(r) ==
    /\ Len(Co2WindowWith(r)) >= co2_min_readings
    /\ r.co2 <= co2_plateau_min_co2
    /\ AbsRateBelow(Co2RateWith(r), co2_plateau_rate_threshold_x10)

\* the CO2 recommendation by rate magnitude
Co2Recommendation(r) ==
    IF AbsRateAbove(Co2RateWith(r), co2_rate_turbo_threshold_x10) THEN "turbo"
    ELSE IF AbsRateAbove(Co2RateWith(r), co2_rate_medium_threshold_x10) THEN "medium"
    ELSE IF AbsRateAbove(Co2RateWith(r), co2_rate_quiet_threshold_x10) THEN "quiet"
    ELSE IF Co2PlateauCriteria(r) THEN "off"
    ELSE "quiet"

\* the ERV is, after the step, at the given speed
ErvAt(speed) ==
    IF speed = "off" THEN ~erv_running' /\ erv_speed' = "off"
    ELSE erv_running' /\ erv_speed' = speed

\* reading r is evaluated by the automatic AWAY logic with CO2 above the
\* refresh target and a rate of change over the window
AwayRateEvaluation(r) ==
    /\ OnQingpingReading(r, FALSE)
    /\ state = "away"
    /\ ~safety_interlock_active(SM)
    /\ ~manual_erv_override
    /\ r.co2 > co2_refresh_target_ppm
    /\ Co2RateWith(r).ok

\* C29: outside the initial turbo window, with tVOC playing no part, the
\* evaluation puts the ERV at the CO2 recommendation: TURBO, MEDIUM or QUIET
\* by the rate magnitude, OFF at a plateau and QUIET otherwise.
C29_Co2RateBuckets ==
    [][\A r \in AdaptiveReadings :
         (/\ AwayRateEvaluation(r)
          /\ r.tvoc = NoneVal
          /\ ~tvoc_away_ventilation_active)
         => ErvAt(Co2Recommendation(r))]_vars

\* the Orchestrator once reading r is stored and appended to the windows
WithReading(r) ==
    [Fresh(O) EXCEPT !.latest_reading = r,
                     !.co2_history = Co2WindowWith(r),
                     !.tvoc_away_history =
                         IF r.tvoc # NoneVal
                         THEN DequeAppend(@, <<now, r.tvoc>>, tvoc_away_history_size)
                         ELSE @]

\* the tVOC recommendation for reading r ("none": no recommendation)
TvocRecommendation(r) == away_tvoc_adaptive(WithReading(r)).speed

\* the more aggressive of two speeds
MoreAggressive(a, b) == IF SpeedPriority(a) >= SpeedPriority(b) THEN a ELSE b

\* C30: when the CO2 logic and the tVOC logic both give a recommendation,
\* the evaluation puts the ERV at the more aggressive of the two, and turns
\* it off when both recommend OFF.
C30_MoreAggressiveSpeed ==
    [][\A r \in AdaptiveReadings :
         (AwayRateEvaluation(r) /\ TvocRecommendation(r) # "none")
         => ErvAt(MoreAggressive(Co2Recommendation(r), TvocRecommendation(r)))]_vars

(* ---------------- tVOC while PRESENT ---------------- *)

\* tVOC readings and tVOC windows of a second run
TvocAlternatives == {NoneVal, 20, 300}

TvocWindowAlternatives ==
    {<<>>, << <<StartTime, 20>> >>, << <<StartTime, 300>> >>}

\* the evaluation of reading r in a run that differs from this one only in
\* the tVOC reading tv and the tVOC window h
SecondRun(r, tv, h) ==
    on_qingping_reading([Fresh(O) EXCEPT !.tvoc_away_history = h], SM, now,
                        [r EXCEPT !.tvoc = tv], FALSE)

\* C31: while PRESENT the evaluation of a reading sends the same ERV command
\* and records the same ERV state as the evaluation in a run with the same
\* door, window, CO2, override and ERV state and any other tVOC reading and
\* tVOC window.
C31_TvocIgnoredWhenPresent ==
    [][\A r \in Readings :
         (OnQingpingReading(r, FALSE) /\ state = "present")
         => \A tv \in TvocAlternatives, h \in TvocWindowAlternatives :
              \E second \in {SecondRun(r, tv, h)} :
                 <<second.erv_cmd, second.erv_running, second.erv_speed, second.erv_audit>>
                 = <<erv_cmd', erv_running', erv_speed', erv_audit'>>]_vars

\* PRESENT with the room closed: the evaluation of a reading with CO2 at the
\* critical level has just started QUIET ventilation
C31_Witness ==
    /\ state = "present"
    /\ ~safety_interlock_active(SM)
    /\ latest_reading.co2 = 2000
    /\ erv_cmd = "quiet"
    /\ erv_running /\ erv_speed = "quiet"

(* ---------------- AWAY: heating and the ERV ---------------- *)

\* 10 C = 50 F is below hvac_critical_temp_f, 15 C = 59 F lies between the
\* two thresholds, 20 C = 68 F is hvac_min_temp_f, 25 C = 77 F is above it
CoordinationReadings ==
    [co2 : {NoneVal}, tvoc : {20, 300}, temp_c : {10, 15, 20, 25}]

\* start() records the heat pump's operationMode, whichever it is
InitCoordination ==
    now = StartTime /\ InitSM
    /\ InitOrch({FALSE}, {"off", "heat", "cool", "auto"}, HistorySizeVentilation)
    /\ heat_band = NoHeatBandCall

NextCoordination ==
    \/ \E b \in BOOLEAN : HandleYolinkMotion(b)
    \/ \E r \in CoordinationReadings, loop \in BOOLEAN : OnQingpingReading(r, loop)
    \/ \E sp \in ErvSpeeds : HandleErvPost(sp)
    \/ \E h, so, co \in BOOLEAN : EvaluateHvacState(h, so, co)
    \/ Tick(MaxTicksHvac)

SpecCoordination == InitCoordination /\ [][NextCoordination]_vars

\* the HVAC evaluation turns the heat pump off or marks it suspended
SuspensionStarted == hvac_cmd' = "off" \/ (hvac_suspended' /\ ~hvac_suspended)

\* C32: while AWAY with the temperature not below hvac_critical_temp_f, an
\* HVAC evaluation turns the heat pump off or marks it suspended only if the
\* ERV is running, the temperature is above hvac_min_temp_f and the status
\* query reports heat, cool or auto; it then remembers that mode, and marks
\* the HVAC suspended only with the heat pump off.
C32_SuspendOnlyWhenVentilatingWarm ==
    [][\A h, so, co \in BOOLEAN :
         (/\ state = "away" /\ ~TempCritical
          /\ EvaluateHvacState(h, so, co)
          /\ SuspensionStarted)
         => /\ erv_running
            /\ get_temp_f(O) # NoneVal /\ get_temp_f(O) > hvac_min_temp_f
            /\ so /\ kumo_mode \in HvacOnModes
            /\ hvac_cmd' = "off"
            /\ hvac_last_mode' = kumo_mode
            /\ hvac_suspended' => (kumo_mode' = "off" /\ hvac_mode' = "off")]_vars

\* AWAY at 77 F with the ERV running: the evaluation has just turned the
\* cooling heat pump off, marked it suspended and remembered "cool"
C32_Witness ==
    /\ state = "away"
    /\ erv_running
    /\ get_temp_f(O) = 77
    /\ hvac_cmd = "off"
    /\ hvac_suspended
    /\ hvac_last_mode = "cool"
    /\ kumo_mode = "off"

\* the conditions of the AWAY restore, h = within occupancy hours
RestoreConditions(h) ==
    /\ ~erv_running
    /\ hvac_suspended
    /\ h
    /\ hvac_last_mode \in HvacOnModes

\* the HVAC evaluation sends set_heat / set_cool or clears the suspension
HvacRestored ==
    hvac_cmd' \in {"heat", "cool"} \/ (hvac_suspended /\ ~hvac_suspended')

\* what an AWAY evaluation may do about a restore under conditions h
RestoreOnlyWhen(h) ==
    /\ HvacRestored => RestoreConditions(h)
    /\ hvac_cmd' \in {"heat", "cool"} => hvac_cmd' = hvac_last_mode
    /\ (hvac_suspended /\ ~hvac_suspended')
         => (kumo_mode' = hvac_last_mode \/ hvac_last_mode = "auto")
    /\ ~RestoreConditions(h)
         => (kumo_mode' = kumo_mode \/ kumo_mode' = "off")

\* C33 as stated: while AWAY, whatever the temperature, an HVAC evaluation
\* sends a heat or cool command or clears the suspension only if the ERV is
\* stopped, the HVAC is suspended, the time is within the occupancy hours and
\* the remembered mode is heat, cool or auto; otherwise the heat pump is not
\* turned on.
C33_RestoreOnlyWhenStopped ==
    [][\A h, so, co \in BOOLEAN :
         (state = "away" /\ EvaluateHvacState(h, so, co))
         => RestoreOnlyWhen(h)]_vars

\* C33, amended: while AWAY with the temperature not below
\* hvac_critical_temp_f, an HVAC evaluation sends a heat or cool command or
\* clears the suspension only if the ERV is stopped, the HVAC is suspended,
\* the time is within the occupancy hours and the remembered mode is heat,
\* cool or auto; the command is that of the remembered mode; otherwise the
\* heat pump is not turned on.
C33_RestoreOnlyWhenStoppedAboveCritical ==
    [][\A h, so, co \in BOOLEAN :
         (state = "away" /\ ~TempCritical /\ EvaluateHvacState(h, so, co))
         => RestoreOnlyWhen(h)]_vars

\* AWAY with the ERV stopped: the evaluation has just restored cooling
C33_Witness ==
    /\ state = "away"
    /\ ~erv_running
    /\ ~TempCritical
    /\ hvac_audit = "erv_stopped_occupancy_hours"
    /\ hvac_cmd = "cool"
    /\ kumo_mode = "cool"
    /\ ~hvac_suspended

\* C34: an HVAC evaluation while PRESENT clears the suspension flag, also when
\* the command raises; if the HVAC was suspended with a remembered mode, the
\* command of that mode is sent, and once it returned the heat pump runs in
\* the remembered mode.
C34_PresentRestores ==
    [][\A h, so, co \in BOOLEAN :
         (state = "present" /\ EvaluateHvacState(h, so, co))
         => /\ ~hvac_suspended'
            /\ (hvac_suspended /\ hvac_last_mode \in HvacOnModes)
                 => /\ hvac_cmd' = hvac_last_mode
                    /\ co => kumo_mode' = hvac_last_mode
            /\ ~hvac_suspended => hvac_cmd' = "none"]_vars

\* the temperature of the latest reading is at or below hvac_min_temp_f and
\* not below hvac_critical_temp_f
TempAtOrBelowFloor ==
    /\ get_temp_f(O) # NoneVal
    /\ get_temp_f(O) <= hvac_min_temp_f
    /\ get_temp_f(O) >= hvac_critical_temp_f

\* C38: while AWAY with the ERV running, the HVAC suspended with heat or cool
\* remembered and the temperature at or below hvac_min_temp_f, an HVAC
\* evaluation within the occupancy hours sends the command of the remembered
\* mode and, once it returned, clears the suspension.
C38_NoSuspensionBelowFloor ==
    [][\A h, so, co \in BOOLEAN :
         (/\ state = "away" /\ erv_running /\ hvac_suspended
          /\ hvac_last_mode \in {"heat", "cool"}
          /\ TempAtOrBelowFloor
          /\ h
          /\ EvaluateHvacState(h, so, co))
         => /\ hvac_cmd' = hvac_last_mode
            /\ co => (~hvac_suspended' /\ kumo_mode' = hvac_last_mode)]_vars

(* ---------------- _evaluate_hvac_state: a coroutine with awaits ---------------- *)

\* the coroutine is suspended in branch at, having called the Kumo method cmd
Awaiting(at, cmd) == [at |-> at, cmd |-> cmd]

\* _evaluate_hvac_state from its start to its first await (or to its end if
\* it reaches none)
hvac_begin(o, s, within_hours) ==
    LET temp_f == get_temp_f(o) IN
    IF s.state = "present"
    THEN IF o.hvac_suspended /\ o.hvac_last_mode \in {"heat", "cool"}
         THEN [o EXCEPT !.hvac_cmd = o.hvac_last_mode,
                        !.hvac_await = Awaiting("present_restore", o.hvac_last_mode)]
         ELSE IF o.hvac_suspended /\ o.hvac_last_mode = "auto"
         THEN [o EXCEPT !.hvac_mode = "auto", !.hvac_audit = "present_restore",
                        !.hvac_suspended = FALSE]
         ELSE [o EXCEPT !.hvac_suspended = FALSE]
    ELSE IF temp_f # NoneVal /\ temp_f < hvac_critical_temp_f
    THEN IF o.hvac_suspended \/ o.hvac_mode = "off"
         THEN [o EXCEPT !.hvac_cmd = "heat",
                        !.hvac_await = Awaiting("critical_temp", "heat")]
         ELSE o
    ELSE IF o.erv_running /\ temp_f # NoneVal /\ temp_f > hvac_min_temp_f
    THEN IF ~o.hvac_suspended
         THEN [o EXCEPT !.hvac_await = Awaiting("erv_running", "get_full_status")]
         ELSE o
    ELSE IF ~o.erv_running /\ o.hvac_suspended
    THEN IF within_hours /\ o.hvac_last_mode \in {"heat", "cool"}
         THEN [o EXCEPT !.hvac_cmd = o.hvac_last_mode,
                        !.hvac_await = Awaiting("erv_stopped_occupancy_hours",
                                                o.hvac_last_mode)]
         ELSE IF within_hours /\ o.hvac_last_mode = "auto"
         THEN [o EXCEPT !.hvac_mode = "auto", !.hvac_suspended = FALSE,
                        !.hvac_audit = "erv_stopped_occupancy_hours"]
         ELSE o
    ELSE o

\* _evaluate_hvac_state from the await it is suspended at to its next await
\* or its end; ok = the awaited Kumo call returned instead of raising
hvac_resume(o, ok) ==
    LET at == o.hvac_await.at
        cmd == o.hvac_await.cmd
        done == [o EXCEPT !.hvac_await = NoAwait]
    IN IF at = "present_restore"
       THEN IF ok
            THEN [done EXCEPT !.kumo_mode = cmd, !.hvac_mode = o.hvac_last_mode,
                              !.hvac_audit = at, !.hvac_suspended = FALSE]
            ELSE [done EXCEPT !.hvac_suspended = FALSE]
       ELSE IF at = "critical_temp"
       THEN IF ok
            THEN [done EXCEPT !.kumo_mode = "heat", !.hvac_mode = "heat",
                              !.hvac_suspended = FALSE, !.hvac_audit = at]
            ELSE done
       ELSE IF at = "erv_running" /\ cmd = "get_full_status"
       THEN IF ok /\ o.kumo_mode \in HvacOnModes
            THEN [o EXCEPT !.hvac_last_mode = o.kumo_mode, !.hvac_cmd = "off",
                           !.hvac_await = Awaiting("erv_running", "turn_off")]
            ELSE done
       ELSE IF at = "erv_running"
       THEN IF ok
            THEN [done EXCEPT !.kumo_mode = "off", !.hvac_mode = "off",
                              !.hvac_suspended = TRUE, !.hvac_audit = at]
            ELSE done
       ELSE IF ok
            THEN [done EXCEPT !.kumo_mode = cmd, !.hvac_mode = o.hvac_last_mode,
                              !.hvac_suspended = FALSE, !.hvac_audit = at]
            ELSE done

\* the loop starts the created _evaluate_hvac_state task
EvaluateHvacStateBegin(within_hours) ==
    /\ hvac_eval_pending
    /\ hvac_await = NoAwait
    /\ \E o1 \in {hvac_begin([Fresh(O) EXCEPT !.hvac_eval_pending = FALSE],
                             SM, within_hours)} : SetO(o1)
    /\ UNCHANGED <<now, smVars, erv_device, heat_band>>

\* the awaited Kumo call is over and the loop resumes the coroutine
EvaluateHvacStateResume(ok) ==
    /\ hvac_await # NoAwait
    /\ \E o1 \in {hvac_resume(Fresh(O), ok)} : SetO(o1)
    /\ UNCHANGED <<now, smVars, erv_device, heat_band>>

InitInterleave ==
    now = StartTime /\ InitSM
    /\ InitOrch({FALSE}, {"off", "heat"}, HistorySizeVentilation)
    /\ heat_band = NoHeatBandCall

\* while the coroutine waits for the heat pump the loop dispatches other events
NextInterleave ==
    \/ \E b \in BOOLEAN : HandleYolinkMotion(b)
    \/ \E r \in CoordinationReadings, loop \in BOOLEAN : OnQingpingReading(r, loop)
    \/ \E sp \in ErvSpeeds : HandleErvPost(sp)
    \/ \E h \in BOOLEAN : EvaluateHvacStateBegin(h)
    \/ \E ok \in BOOLEAN : EvaluateHvacStateResume(ok)
    \/ Tick(MaxTicksHvac)

SpecInterleave == InitInterleave /\ [][NextInterleave]_vars

\* the state shared by the handlers and the evaluations
SharedState ==
    <<smVars, erv_running, erv_speed, hvac_mode, hvac_suspended, hvac_last_mode,
      manual_erv_override, manual_hvac_override, latest_reading>>

\* C35: an evaluation that has started runs to its end before any other
\* handler reads or writes the shared state: while _evaluate_hvac_state is
\* under way, the only step that changes the shared state is its own.
C35_EvaluationsRunToCompletion ==
    [][(hvac_await # NoAwait /\ SharedState' # SharedState)
       => \E ok \in BOOLEAN : EvaluateHvacStateResume(ok)]_vars

(* ---------------- occupancy: a door event is no presence signal ---------------- *)

\* motion was detected, or the workstation reported activity, after the
\* door's last change
SignalNewerThanDoor ==
    \/ motion_last_seen > door_last_changed
    \/ mac_last_active > door_last_changed

\* C36: a door event never moves AWAY to PRESENT, and outside door-held-open
\* mode no evaluation moves AWAY to PRESENT unless motion was detected or the
\* workstation was active after the door's last change.
C36_DoorEventAloneKeepsAway ==
    [][/\ \A b \in BOOLEAN :
            (state = "away" /\ HandleYolinkDoor(b)) => state' = "away"
       /\ (state = "away" /\ state' = "present" /\ ~in_door_open_mode(SM, now)')
            => SignalNewerThanDoor']_vars

\* AWAY, outside door-held-open mode: the door has just been closed while
\* motion seen before the close is still recent and the workstation, monitor
\* attached, was active before the close
C36_Witness ==
    /\ state = "away"
    /\ ~door_open /\ door_last_changed = now
    /\ motion_last_seen > 0 /\ MotionRecent
    /\ external_monitor /\ mac_last_active > 0
    /\ ~SignalNewerThanDoor
    /\ notified = <<>>

(* ---------------- ventilation: the recorded ERV state ---------------- *)

\* C37: after every step the ERV is recorded as running exactly when the
\* recorded speed is not "off", and after every step that sends an ERV
\* command the recorded speed is the speed of that command.
C37_RunningAgreesWithSpeed ==
    [][/\ erv_running' <=> erv_speed' # "off"
       /\ erv_cmd' # "none" => erv_speed' = erv_cmd']_vars

(* ---------------- occupancy: observers that raise ---------------- *)

\* clock ticks explored with several observers
MaxTicksObservers == 3

\* the lists of observers registered with on_state_change: the Orchestrator,
\* alone or next to an observer that raises or one that returns
ObserverLists ==
    {RegisteredCallbacks, <<"raises", "orchestrator">>,
     <<"orchestrator", "records">>, <<"raises", "orchestrator", "records">>}

InitObservers ==
    now = StartTime /\ InitSMWith(ObserverLists)
    /\ InitOrch({FALSE}, {"off"}, HistorySizeVentilation)
    /\ heat_band = NoHeatBandCall

NextObservers ==
    \/ \E b \in BOOLEAN : HandleYolinkDoor(b)
    \/ \E b \in BOOLEAN : HandleYolinkMotion(b)
    \/ TimerTasks
    \/ \E h, so, co \in BOOLEAN : EvaluateHvacState(h, so, co)
    \/ Tick(MaxTicksObservers)

SpecObservers == InitObservers /\ [][NextObservers]_vars

\* every registered observer has been called once with (old, new)
AllObserversNotified(old, new) ==
    /\ Len(notified') = Len(callbacks)
    /\ \A i \in 1..Len(notified') : notified'[i] = <<old, new>>

\* C39: a transition is kept and announced to every observer although
\* observers raise (the Orchestrator's own observer raises on every entry to
\* AWAY): the state after the step is the one the sensor update or the timer
\* decided, every registered observer has been called with the transition,
\* and a departure timer that committed AWAY has finished.
C39_RaisingObserverKeepsTransition ==
    [][/\ \A b \in BOOLEAN :
            HandleYolinkMotion(b) => state' = update_motion(SM, now, b).state
       /\ \A b \in BOOLEAN :
            HandleYolinkDoor(b) => state' = update_door(SM, now, b).state
       /\ \A tk \in tasks :
            DepartureVerificationTimer(tk)
            => /\ state' = "away"
               /\ tk \notin tasks'
               /\ ~verifying_departure'
       /\ state' # state => AllObserversNotified(state, state')]_vars

\* a departure timer has committed AWAY with three observers registered, of
\* which the first and the Orchestrator's raised: all three were called
C39_Witness ==
    /\ callbacks = <<"raises", "orchestrator", "records">>
    /\ state = "away"
    /\ notified = << <<"present", "away">>, <<"present", "away">>,
                     <<"present", "away">> >>
    /\ ~verifying_departure
    /\ tasks = {}

(* ---------------- AWAY: nothing asks for ventilation ---------------- *)

\* CO2 does not ask for ventilation: it is not above the refresh target, or
\* the CO2 logic recommends OFF
Co2AsksNothing(r) ==
    \/ r.co2 <= co2_refresh_target_ppm
    \/ Co2RateWith(r).ok /\ Co2Recommendation(r) = "off"

\* C40: while AWAY with no interlock and no override, the evaluation of a
\* reading for which CO2 asks for nothing and the tVOC logic recommends OFF
\* (plateau) turns a running ERV off.
C40_PlateauStopsErv ==
    [][\A r \in AdaptiveReadings :
         (/\ OnQingpingReading(r, FALSE)
          /\ state = "away"
          /\ ~safety_interlock_active(SM)
          /\ ~manual_erv_override
          /\ erv_running
          /\ Co2AsksNothing(r)
          /\ TvocRecommendation(r) = "off")
         => (erv_cmd' = "off" /\ ErvAt("off"))]_vars

====
